---- MODULE Spec2Model ----
(***************************************************************************)
(* Model of the MCAT content pipeline's orchestration engine:              *)
(*   - scripts/parallel_pipeline.py   completion matrix, wave scheduler,   *)
(*                                    multi-key worker pool                *)
(*   - scripts/utils/gemini_client.py rate-limited client with fallback    *)
(*   - scripts/utils/checkpoint_manager.py + scripts/run_pipeline.py       *)
(*                                    checkpoint ledger and phase runner   *)
(* Phase ids are the source's decimal ids times ten (6.1 -> 61, 8.2 -> 82).*)
(* A chapter of None is written 0.                                         *)
(***************************************************************************)
EXTENDS Integers, Sequences, FiniteSets, TLC

\* ------------------------------------------------------------------ bounds
\* Chapters per book (the source sets 12).
NUM_CHAPTERS == 1
\* Largest --workers value explored.
MaxWorkers == 2
\* Largest number of work items left to do on disk when the orchestrator starts.
MaxItems == 2
\* Largest max_retries a caller of the client passes.
MaxRetries == 3
\* Requests made through the client in one behaviour.
MaxRequests == 2
\* Calls of upload_pdf in one behaviour.
MaxUploads == 4
\* Throttle checks and usage records made on the instances of one process.
MaxWindowOps == 4

\* ------------------------------------------------------- generic helpers
\* dict.get(k, default)
Get(d, k, default) == IF k \in DOMAIN d THEN d[k] ELSE default

\* The empty dict {}.
EmptyDict == << >>

Min(a, b) == IF a <= b THEN a ELSE b

Range(s) == {s[i] : i \in 1..Len(s)}

\* The subsets of S of at most n elements.
RECURSIVE SubsetsUpTo(_, _)
SubsetsUpTo(S, n) ==
  IF n = 0 THEN {{}}
  ELSE LET smaller == SubsetsUpTo(S, n - 1)
       IN smaller \cup {T \cup {x} : T \in smaller, x \in S}

\* s with its i-th element removed: list.pop(i - 1)
RemoveAt(s, i) == SubSeq(s, 1, i - 1) \o SubSeq(s, i + 1, Len(s))

\* ------------------------------------------------ books and output artifacts
\* The books modelled, in the insertion order of BOOKS (two of the seven:
\* an ordinary book and the exempt one).
BOOKS == <<"psych_soc", "cars">>

Subjects == Range(BOOKS)

\* Rank of a subject key in Python's string order.
SubjectRank(s) ==
  CASE s = "biochemistry" -> 1
    [] s = "biology"      -> 2
    [] s = "cars"         -> 3
    [] s = "gen_chem"     -> 4
    [] s = "global"       -> 5
    [] s = "org_chem"     -> 6
    [] s = "physics"      -> 7
    [] s = "psych_soc"    -> 8

Chapters == 1..NUM_CHAPTERS

\* Phases whose output is one file per book (chapter None).
BookPhases == {40}

\* Phases of the completion matrix that the waves schedule, per chapter.
ChapterPhases == {20, 30, 50, 60, 61, 70, 80, 81, 82}

\* An output artifact <<phase, subject, chapter>>: a file under
\* PHASE_OUTPUT_DIRS[phase]/subject that matches the chapter's pattern
\* (chapter 0: the book-level file; <<90, "global", 0>>: _bridge_graph.json).
AllArtifacts ==
  (ChapterPhases \X Subjects \X Chapters)
    \cup (BookPhases \X Subjects \X {0})
    \cup {<<90, "global", 0>>}

\* CARS doesn't produce output for assessment/glossary/figure phases.
Exempt(phase, subject) == subject = "cars" /\ phase \in {20, 40, 50}

\* check_phase_done(phase, subject, chapter) on the files `files`, for the
\* calls get_completion_matrix makes (a chapter for the per-chapter phases,
\* none for phases 4 and 9).
check_phase_done(files, phase, subject, chapter) ==
  IF Exempt(phase, subject) THEN TRUE
  ELSE IF phase \notin (ChapterPhases \cup BookPhases \cup {90}) THEN FALSE
  ELSE IF phase = 90 THEN <<90, "global", 0>> \in files
  ELSE IF phase = 40 THEN <<40, subject, 0>> \in files
  ELSE <<phase, subject, chapter>> \in files

\* get_completion_matrix(): subject -> phase -> (chapter -> bool), or
\* ("done" -> bool) for book-wide phases; the key "done" is written 0.
get_completion_matrix(files) ==
  [s \in Subjects \cup {"_global"} |->
     IF s = "_global"
     THEN (90 :> (0 :> check_phase_done(files, 90, "global", 0)))
     ELSE [p \in ChapterPhases \cup BookPhases |->
             IF p \in BookPhases
             THEN (0 :> check_phase_done(files, p, s, 0))
             ELSE [ch \in Chapters |-> check_phase_done(files, p, s, ch)]]]

\* ------------------------------------------------------------- scheduler
Item(phase, subject, chapter, priority, api) ==
  [phase |-> phase, subject |-> subject, chapter |-> chapter,
   priority |-> priority, api_needed |-> api]

\* Mutant: the item is appended whatever the matrix says.
EmitIfNotDone_Always(matrix, subject, phase, key, chapter, priority, api) ==
  <<Item(phase, subject, chapter, priority, api)>>

\* One `if isinstance(data, dict) and not data.get(ch, False): append(...)`.
EmitIfNotDone(matrix, subject, phase, key, chapter, priority, api) ==
  IF ~Get(Get(matrix[subject], phase, EmptyDict), key, FALSE)
  THEN <<Item(phase, subject, chapter, priority, api)>>
  ELSE << >>

\* The loop body for one chapter of wave w, in the order of the source.
ChapterBody(matrix, subject, w, part, ch) ==
  CASE w = 1 /\ part = 1 ->
         EmitIfNotDone(matrix, subject, 20, ch, ch, 1, TRUE)
           \o EmitIfNotDone(matrix, subject, 30, ch, ch, 2, TRUE)
    [] w = 1 /\ part = 2 ->
         EmitIfNotDone(matrix, subject, 50, ch, ch, 3, TRUE)
    [] w = 2 ->
         EmitIfNotDone(matrix, subject, 60, ch, ch, 1, TRUE)
           \o EmitIfNotDone(matrix, subject, 61, ch, ch, 2, TRUE)
           \o EmitIfNotDone(matrix, subject, 70, ch, ch, 3, FALSE)
    [] w = 3 ->
         EmitIfNotDone(matrix, subject, 80, ch, ch, 1, TRUE)
           \o EmitIfNotDone(matrix, subject, 82, ch, ch, 2, TRUE)
           \o EmitIfNotDone(matrix, subject, 81, ch, ch, 3, FALSE)

\* for ch in range(from, NUM_CHAPTERS + 1): body
RECURSIVE ChapterLoop(_, _, _, _, _)
ChapterLoop(matrix, subject, w, part, from) ==
  IF from > NUM_CHAPTERS THEN << >>
  ELSE ChapterBody(matrix, subject, w, part, from)
         \o ChapterLoop(matrix, subject, w, part, from + 1)

\* What one subject appends to wave w.
SubjectItems(matrix, subject, w) ==
  CASE w = 1 ->
         ChapterLoop(matrix, subject, 1, 1, 1)
           \o EmitIfNotDone(matrix, subject, 40, 0, 0, 1, TRUE)
           \o ChapterLoop(matrix, subject, 1, 2, 1)
    [] w \in {2, 3} -> ChapterLoop(matrix, subject, w, 1, 1)
    [] w = 4 -> << >>

\* for subject in BOOKS.values(): ...
RECURSIVE BooksLoop(_, _, _)
BooksLoop(matrix, w, i) ==
  IF i > Len(BOOKS) THEN << >>
  ELSE SubjectItems(matrix, BOOKS[i], w) \o BooksLoop(matrix, w, i + 1)

\* Mutant: phase 9 is emitted whatever the matrix says.
Wave4Items_Always(matrix) == <<Item(90, "global", 0, 1, TRUE)>>

\* Wave 4: phase 9, unless matrix["_global"][9]["done"].
Wave4Items(matrix) ==
  IF ~Get(Get(Get(matrix, "_global", EmptyDict), 90, EmptyDict), 0, FALSE)
  THEN <<Item(90, "global", 0, 1, TRUE)>>
  ELSE << >>

\* The sort key (priority, subject, chapter or 0), compared as Python tuples.
KeyLess(x, y) ==
  \/ x.priority < y.priority
  \/ /\ x.priority = y.priority
     /\ \/ SubjectRank(x.subject) < SubjectRank(y.subject)
        \/ /\ x.subject = y.subject
           /\ x.chapter < y.chapter

\* list.sort(key=...): a stable sort.
RECURSIVE InsertSorted(_, _)
InsertSorted(x, s) ==
  IF s = << >> THEN <<x>>
  ELSE IF KeyLess(x, Head(s)) THEN <<x>> \o s
  ELSE <<Head(s)>> \o InsertSorted(x, Tail(s))

RECURSIVE SortItems(_)
SortItems(s) ==
  IF s = << >> THEN << >>
  ELSE InsertSorted(s[Len(s)], SortItems(SubSeq(s, 1, Len(s) - 1)))

\* generate_work_items(matrix): wave number -> sorted list of items.
generate_work_items(matrix) ==
  [w \in 1..4 |->
     SortItems(IF w = 4 THEN Wave4Items(matrix) ELSE BooksLoop(matrix, w, 1))]

\* ------------------------------------------------------ checkpoint ledger
\* PHASE_DEPENDENCIES: phase -> required phases.
PHASE_DEPENDENCIES ==
  (0 :> {}) @@ (10 :> {0}) @@ (20 :> {10}) @@ (30 :> {10}) @@ (40 :> {10})
    @@ (50 :> {10, 30}) @@ (60 :> {20, 30}) @@ (61 :> {60})
    @@ (70 :> {10, 30}) @@ (71 :> {70}) @@ (80 :> {70, 71}) @@ (90 :> {30})
    @@ (100 :> {80}) @@ (110 :> {10, 80, 90})

\* A pdf argument of None.
NoPdf == "None"

PSYCH_PDF == "MCAT Behavioral Sciences Review.pdf"
CARS_PDF == "MCAT Critical Analysis and Reasoning Skills Review.pdf"

\* config.BOOKS: pdf file name -> subject, for the books modelled.
CONFIG_BOOKS == (PSYCH_PDF :> "psych_soc") @@ (CARS_PDF :> "cars")

\* subject = BOOKS.get(pdf, "unknown") if pdf else "global"
SubjectOf(pdf) == IF pdf = NoPdf THEN "global" ELSE Get(CONFIG_BOOKS, pdf, "unknown")

\* get_last_checkpoint() returning None.
NoCheckpoint ==
  [pdf |-> NoPdf, subject |-> "global", chapter |-> 0, phase |-> -1,
   status |-> "none"]

\* pipeline_checkpoint.json does not exist.
MissingFile ==
  [exists |-> FALSE, readable |-> FALSE, last_run |-> NoCheckpoint,
   subjects |-> EmptyDict]

\* pipeline_checkpoint.json exists and is not valid JSON.
UnreadableFile ==
  [exists |-> TRUE, readable |-> FALSE, last_run |-> NoCheckpoint,
   subjects |-> EmptyDict]

\* data["subjects"][subject] as first created.
NewSubject == [completed_phases |-> {}, chapters |-> EmptyDict]

\* save_checkpoint(pdf, chapter, phase, phase_name, status) on the file
\* `file`: the file it writes.  Lists without duplicates are sets; the key
\* "ch<n>" is written n.
save_checkpoint(file, pdf, chapter, phase, status) ==
  LET subject == SubjectOf(pdf)
      checkpoint == [pdf |-> pdf, subject |-> subject, chapter |-> chapter,
                     phase |-> phase, status |-> status]
      data == IF file.exists /\ file.readable THEN file.subjects ELSE EmptyDict
      entry == Get(data, subject, NewSubject)
      updated ==
        IF chapter # 0
        THEN [entry EXCEPT !.chapters =
                (chapter :> (Get(entry.chapters, chapter, {}) \cup {phase}))
                  @@ entry.chapters]
        ELSE [entry EXCEPT !.completed_phases = @ \cup {phase}]
  IN [exists |-> TRUE, readable |-> TRUE, last_run |-> checkpoint,
      subjects |-> (subject :> updated) @@ data]

\* get_last_checkpoint()
get_last_checkpoint(file) ==
  IF ~file.exists THEN NoCheckpoint
  ELSE IF ~file.readable THEN NoCheckpoint
  ELSE file.last_run

\* The `completed` list check_prerequisites builds for (subject, chapter).
CompletedFor(file, subject, chapter) ==
  IF subject \in DOMAIN file.subjects
  THEN LET subj_data == file.subjects[subject]
       IN subj_data.completed_phases
            \cup (IF chapter # 0 THEN Get(subj_data.chapters, chapter, {})
                  ELSE {})
  ELSE {}

\* check_prerequisites(pdf, chapter, phase): (ok, missing).  The missing list
\* is given by its parts: the missing phases, the subjects reported as
\* "Phase 3 for <subject>", and the entry "Error reading checkpoint file".
check_prerequisites(file, pdf, chapter, phase) ==
  IF phase \notin DOMAIN PHASE_DEPENDENCIES
  THEN [ok |-> TRUE, missing |-> {}, missing_subjects |-> {},
        read_error |-> FALSE]
  ELSE IF ~file.exists
  THEN [ok |-> phase = 0, missing |-> IF phase # 0 THEN {0} ELSE {},
        missing_subjects |-> {}, read_error |-> FALSE]
  ELSE IF ~file.readable
  THEN [ok |-> FALSE, missing |-> {}, missing_subjects |-> {},
        read_error |-> TRUE]
  ELSE LET completed == CompletedFor(file, SubjectOf(pdf), chapter)
           missing == {p \in PHASE_DEPENDENCIES[phase] : p \notin completed}
           absent == IF phase = 90
                     THEN {s \in Subjects : s \notin DOMAIN file.subjects}
                     ELSE {}
       IN [ok |-> missing = {} /\ absent = {}, missing |-> missing,
           missing_subjects |-> absent, read_error |-> FALSE]

\* ------------------------------------------------------------ phase runner
\* The phases of run_pipeline.main in the order it runs them.
PHASE_ORDER == <<0, 10, 20, 30, 40, 50, 60, 61, 70, 80, 82, 81, 90, 100, 110>>

\* The phase whose `if from_phase <= N <= to_phase` guards a phase: 6.1 runs
\* inside the block of phase 6.
BlockOf(phase) == IF phase = 61 THEN 60 ELSE phase

\* The phases that set CURRENT_PHASE when they start.
SETS_CURRENT_PHASE == {30, 60, 61, 70, 80, 82}

\* CURRENT_PHASE not set (globals().get("CURRENT_PHASE") is None).
NoPhase == -1

\* The (pdf, chapter) a phase's save_checkpoint call records.
SaveTarget(phase, pdf, chapter) ==
  IF phase = 90 THEN <<NoPdf, 0>>
  ELSE IF phase \in {100, 110} THEN <<pdf, 0>>
  ELSE <<pdf, chapter>>

\* The file after phase `phase` of a run for (pdf, chapter) is checkpointed.
SavePhase(file, phase, pdf, chapter) ==
  LET t == SaveTarget(phase, pdf, chapter)
  IN save_checkpoint(file, t[1], t[2], phase, "completed")

\* Mutant: resume always retries the last phase.
ResumeFrom_Retry(last) == last.phase

\* if args.resume and last: the from_phase the resume block computes.
ResumeFrom(last) ==
  IF last.status = "completed" THEN last.phase + 10 ELSE last.phase

\* ------------------------------------------------------- Gemini client
\* _tpm_limit
TPM_LIMIT == 1000000

\* The length in seconds of the usage window.
WINDOW == 60

\* max_retries of the fallback _call.
FALLBACK_RETRIES == 3

\* The phase names of the public calls explored.
PhaseNames == {"extract_light", "extract_heavy"}

\* "P3" in phase or "heavy" in phase or "restructure" in phase
MentionsHeavy(phase) == phase \in {"extract_heavy", "restructure"}

\* est_tokens of _call
est_tokens(phase) == IF MentionsHeavy(phase) THEN 550000 ELSE 450000

\* prompt_token_count and candidates_token_count of a response's usage
\* metadata, as explored (both 0: no metadata).
Usages ==
  {[inp |-> 0, out |-> 0], [inp |-> 400000, out |-> 50000],
   [inp |-> 500000, out |-> 100000]}

\* COST_PER_1M_INPUT / COST_PER_1M_OUTPUT of the two models, in cents.
CostPer1MInput(model) == IF model = "primary" THEN 20 ELSE 15
CostPer1MOutput(model) == IF model = "primary" THEN 80 ELSE 60

\* cost of _track_usage, in units of 10^-8 dollars.
CostOf(model, u) == u.inp * CostPer1MInput(model) + u.out * CostPer1MOutput(model)

\* The counters of a client just constructed.
NoUsage ==
  [call_count |-> 0, total_input_tokens |-> 0, total_output_tokens |-> 0,
   total_cost_estimate |-> 0, last_input_tokens |-> 0,
   last_output_tokens |-> 0]

\* Mutant: the usage of a response is counted as a call only.
track_usage_CallOnly(c, model, u) ==
  [call_count |-> c.call_count + 1,
   total_input_tokens |-> c.total_input_tokens,
   total_output_tokens |-> c.total_output_tokens,
   total_cost_estimate |-> c.total_cost_estimate,
   last_input_tokens |-> u.inp,
   last_output_tokens |-> u.out]

\* _track_usage(model_name, phase, response): the counters after it.
track_usage(c, model, u) ==
  [call_count |-> c.call_count + 1,
   total_input_tokens |-> c.total_input_tokens + u.inp,
   total_output_tokens |-> c.total_output_tokens + u.out,
   total_cost_estimate |-> c.total_cost_estimate + CostOf(model, u),
   last_input_tokens |-> u.inp,
   last_output_tokens |-> u.out]

\* Seconds from the throttle check to the endpoint's answer, as explored.
Durations == {20, 40}

\* The texts of a response, as explored: valid JSON; JSON in a code fence
\* whose closing fence ends the last line (the first parse fails, the
\* cleanup repairs it); text no cleanup repairs; no text because the
\* candidate was blocked (response.text raises); text no cleanup repairs
\* whose parse error lies at a position with the digits 429.
Texts == {"valid", "fence_inline", "invalid", "blocked", "invalid_at_429"}

\* An exception is its type name and the marker substrings of its message.
ErrQuota == [type |-> "ResourceExhausted", msg |-> {"429"}]
ErrServer == [type |-> "InternalServerError", msg |-> {"500"}]
ErrDeadline == [type |-> "DeadlineExceeded", msg |-> {"504"}]
ErrCopyright == [type |-> "ValueError", msg |-> {"reciting", "copyrighted"}]
ErrRecitation == [type |-> "StopCandidateException", msg |-> {"RECITATION"}]
ErrOther == [type |-> "ValueError", msg |-> {}]
ErrTimeout == [type |-> "TimeoutError", msg |-> {}]
ErrJson == [type |-> "JSONDecodeError", msg |-> {}]

\* str() of a JSONDecodeError ends with the position of the error,
\* "line L column C (char P)"; here P is 1429.
ErrJsonAt429 == [type |-> "JSONDecodeError", msg |-> {"429"}]

\* The exceptions generate_content raises, as explored.
EndpointErrors == {ErrQuota, ErrServer, ErrDeadline, ErrRecitation, ErrOther}

\* str.lower() on a marker substring.
LowerOf(m) == IF m = "RECITATION" THEN "recitation" ELSE m

\* The marker substrings of err_str.lower().
Lowered(msg) == {LowerOf(m) : m \in msg}

\* is_copyright of _call_with_fallback
is_copyright(e) ==
  \E marker \in {"copyrighted", "reciting", "RECITATION"} :
    marker \in Lowered(e.msg) \/ marker \in e.msg

\* is_quota of _call_with_fallback
is_quota(e) == "429" \in e.msg \/ e.type = "ResourceExhausted"

\* The inner except of _call: a timeout is raised again as TimeoutError.
Converted(e) ==
  IF e.type = "DeadlineExceeded" \/ "504" \in e.msg
       \/ "timeout" \in Lowered(e.msg)
  THEN ErrTimeout ELSE e

\* The branch `except Exception` of _call takes for e.
Classify(e) ==
  IF e.type = "TimeoutError" THEN "timeout"
  ELSE IF "429" \in e.msg \/ e.type = "ResourceExhausted" THEN "quota"
  ELSE IF "copyrighted" \in Lowered(e.msg) \/ "reciting" \in Lowered(e.msg)
  THEN "blocked"
  ELSE IF "500" \in e.msg \/ "503" \in e.msg \/ e.type = "InternalError"
  THEN "server"
  ELSE "other"

\* Mutant: the quota delay does not grow with the attempt.
Delay_Constant(kind, n) ==
  IF kind = "quota" THEN 30
  ELSE IF kind = "server" THEN 10 * (2 ^ n)
  ELSE 2 ^ (n + 1)

\* delay of the branch, for the 0-based attempt n.
Delay(kind, n) ==
  IF kind = "quota" THEN 30 * (2 ^ n)
  ELSE IF kind = "server" THEN 10 * (2 ^ n)
  ELSE 2 ^ (n + 1)

\* The window d seconds later.  An age is kept up to WINDOW: a sample that
\* old is stale whatever its age.
Advance(w, d) ==
  IF w = << >> THEN << >>
  ELSE [i \in 1..Len(w) |-> [w[i] EXCEPT !.age = Min(@ + d, WINDOW)]]

\* [u for u in window if now - u[0] < 60]
Evict(w) ==
  LET Young(u) == u.age < WINDOW
  IN SelectSeq(w, Young)

\* sum(u[1] for u in window)
RECURSIVE current_tpm(_)
current_tpm(w) ==
  IF w = << >> THEN 0 ELSE w[1].tokens + current_tpm(Tail(w))

\* Mutant: the wait does not outlast the oldest sample.
wait_time_Short(w) == 1

\* wait_time = 60 - (now - window[0][0]) + 1
wait_time(w) == WINDOW - w[1].age + 1

\* The while condition of _rate_limit, checking the window alone.
OverCeiling_NoEstimate(w, incoming) == current_tpm(w) > TPM_LIMIT

\* The while condition of _rate_limit:
\* current_tpm + incoming_tokens > self._tpm_limit
OverCeiling(w, incoming) == current_tpm(w) + incoming > TPM_LIMIT

\* ------------------------------------------------------ worker pool state
VARIABLES
  artifacts,     \* output files on disk, as a set of <<phase, subject, chapter>>
  max_workers,   \* --workers
  wave_arg,      \* --wave (0: not given)
  pc,            \* position of parallel_pipeline.main
  matrix,        \* the completion matrix of this run
  waves,         \* generate_work_items(matrix)
  wave_order,    \* the waves this run executes
  wave_idx,      \* position in wave_order
  results,       \* execute_wave's results list
  all_results,   \* main's all_results list
  nfutures,      \* futures of the deterministic items: [item, st]
  pending,       \* call-items not yet submitted: [item, key]
  active_keys,   \* key indices marked busy
  futures,       \* submitted call-items not yet collected: [item, key, done, status]
  ndispatch,     \* history: executor.submit calls per item key
  artifacts_at_start  \* history: the output files when the process started

wvars == <<artifacts, max_workers, wave_arg, pc, matrix, waves, wave_order,
           wave_idx, results, all_results, nfutures, pending, active_keys,
           futures, ndispatch, artifacts_at_start>>

\* ----------------------------------------------------- phase runner state
VARIABLES
  ckpt,           \* pipeline_checkpoint.json
  args,           \* the parsed command line of run_pipeline
  pdf,            \* main's local pdf
  chapter,        \* main's local chapter (0: None)
  from_phase,     \* main's local from_phase
  to_phase,       \* main's local to_phase
  rpc,            \* position of run_pipeline
  step,           \* position in PHASE_ORDER
  CURRENT_PHASE,  \* the module global CURRENT_PHASE
  INTERRUPT_COUNT,      \* the module global INTERRUPT_COUNT
  INTERRUPT_REQUESTED,  \* config.INTERRUPT_REQUESTED
  units           \* the save_checkpoint calls in progress in concurrent
                  \* processes: [upc, pdf, chapter, phase, data]

rvars == <<ckpt, args, pdf, chapter, from_phase, to_phase, rpc, step,
           CURRENT_PHASE, INTERRUPT_COUNT, INTERRUPT_REQUESTED, units>>

\* ------------------------------------------------------------ client state
VARIABLES
  usage_window,   \* the client's usage window: samples [age, tokens], where
                  \* age = time.time() - timestamp, kept up to WINDOW
  cpc,            \* position of the client
  request,        \* the request in progress: [phase, max_retries]
  model_name,     \* the model of the _call in progress
  max_retries,    \* max_retries of the _call in progress
  attempt,        \* attempt of the _call in progress
  raised,         \* the exception the request ended with
  calls,          \* history: endpoint calls of the request, per model
  fallbacks,      \* history: fallback _call invocations of the request
  blocked,        \* history: a primary call of the request failed, blocked
  after_block,    \* history: primary calls issued after such a failure
  nrequests,      \* history: requests made
  waited,         \* history: sleeps of the _rate_limit in progress
  primary_raised, \* history: the exception that left the primary _call
  counters,       \* _call_count, _total_input_tokens, _total_output_tokens,
                  \* _total_cost_estimate, last_input_tokens, last_output_tokens
  retries,        \* history: the retries of the request: [error, delay]
  last_text,      \* history: the text of the response to the last call
  reparses,       \* history: cleanup-and-reparse attempts on that text
  endpoint,       \* what the endpoint answers in this behaviour:
                  \* [errors, texts, usages], the exceptions it raises and
                  \* the texts and usage metadata of its responses
  tracked         \* whether the cost counters and the retry history are
                  \* followed (neither is read by the client)

\* upload_pdf and cleanup, called on the client instances of one process
VARIABLES
  shared_uploaded_files, \* GeminiClient._shared_uploaded_files: path -> File
  upl,            \* the upload_pdf call in progress
  nfiles,         \* File objects genai.upload_file has created
  ncalls,         \* calls of upload_pdf made
  uploaded,       \* history: per path, uploads that became ACTIVE since the
                  \* last cleanup
  returns,        \* history: per path, <<client, File>> of the calls that
                  \* returned since the last cleanup
  failed_files    \* history: the File objects that ended in another state
                  \* than ACTIVE

uvars == <<shared_uploaded_files, upl, nfiles, ncalls, uploaded, returns,
           failed_files>>

\* the usage windows of the client instances of one process
VARIABLES
  class_window,   \* GeminiClient._global_usage_window, the class attribute:
                  \* samples [age, tokens, owner], owner the instance that
                  \* recorded the sample
  has_window,     \* per instance: it has its own _global_usage_window
                  \* attribute, shadowing the class attribute
  inst_window,    \* per instance: that attribute (<< >> while it has none)
  checked,        \* history: per instance, the owners of the samples its last
                  \* throttle check summed
  nops            \* operations made on the instances

gvars == <<class_window, has_window, inst_window, checked, nops>>

cvars == <<usage_window, cpc, request, model_name, max_retries, attempt,
           raised, calls, fallbacks, blocked, after_block, nrequests, waited,
           primary_raised, counters, retries, last_text, reparses, endpoint,
           tracked, uvars, gvars>>

\* auto_wave_runner.main
VARIABLES
  apc,            \* position of auto_wave_runner.main
  amatrix,        \* main's local matrix
  waves_to_run,   \* main's list waves_to_run
  widx,           \* position of the for loop in waves_to_run
  attempts,       \* run_wave calls made for the current wave
  launches        \* history: the wave numbers run_wave was called with

avars == <<apc, amatrix, waves_to_run, widx, attempts, launches>>

vars == <<wvars, rvars, cvars, avars>>

\* The auto-wave runner is not running.
AutoOff ==
  /\ apc = "off"
  /\ amatrix = EmptyDict
  /\ waves_to_run = << >>
  /\ widx = 0
  /\ attempts = 0
  /\ launches = << >>

\* The command line before it is parsed.
NoArgs ==
  [pdf |-> NoPdf, chapter |-> 0, phase |-> NoPhase, from_phase |-> 0,
   to |-> 110, resume |-> FALSE]

\* No exception.
NoError == [type |-> "none", msg |-> {}]

\* No request in progress.
NoRequest == [phase |-> "none", max_retries |-> 0]

\* The orchestrator is not running.
PoolOff ==
  /\ artifacts = {}
  /\ max_workers = 1
  /\ wave_arg = 0
  /\ pc = "off"
  /\ matrix = EmptyDict
  /\ waves = [w \in 1..4 |-> << >>]
  /\ wave_order = << >>
  /\ wave_idx = 0
  /\ results = << >>
  /\ all_results = << >>
  /\ nfutures = << >>
  /\ pending = << >>
  /\ active_keys = {}
  /\ futures = << >>
  /\ ndispatch = [k \in AllArtifacts |-> 0]
  /\ artifacts_at_start = {}

\* The phase runner is not running.
RunnerOff ==
  /\ ckpt = MissingFile
  /\ args = NoArgs
  /\ pdf = NoPdf
  /\ chapter = 0
  /\ from_phase = 0
  /\ to_phase = 110
  /\ rpc = "off"
  /\ step = 0
  /\ CURRENT_PHASE = NoPhase
  /\ INTERRUPT_COUNT = 0
  /\ INTERRUPT_REQUESTED = FALSE
  /\ units = << >>

\* An endpoint that may answer every call in every way explored.
AnyEndpoint ==
  [errors |-> EndpointErrors, texts |-> Texts, usages |-> Usages]

\* The paths upload_pdf is called with: the two books modelled.
PdfPaths == {PSYCH_PDF, CARS_PDF}

\* No File object; File objects are numbered from 1 as they are created.
NoFile == 0

\* No call of upload_pdf is in progress.
NoUpload == [client |-> 0, path |-> NoPdf, file |-> NoFile, state |-> "none"]

\* No path has been uploaded in this process.
UploadOff ==
  /\ shared_uploaded_files = [p \in PdfPaths |-> NoFile]
  /\ upl = NoUpload
  /\ nfiles = 0
  /\ ncalls = 0
  /\ uploaded = [p \in PdfPaths |-> 0]
  /\ returns = [p \in PdfPaths |-> {}]
  /\ failed_files = {}

\* No request is made through a client.
CallOff ==
  /\ endpoint = AnyEndpoint
  /\ tracked = FALSE
  /\ usage_window = << >>
  /\ cpc = "off"
  /\ request = NoRequest
  /\ model_name = "none"
  /\ max_retries = 0
  /\ attempt = 0
  /\ raised = NoError
  /\ calls = [primary |-> 0, fallback |-> 0]
  /\ fallbacks = 0
  /\ blocked = FALSE
  /\ after_block = 0
  /\ nrequests = 0
  /\ waited = 0
  /\ primary_raised = NoError
  /\ counters = NoUsage
  /\ retries = << >>
  /\ last_text = "none"
  /\ reparses = 0

\* The client instances of the process.
Clients == 1..2

\* No instance has throttled or recorded usage in this process.
WindowOff ==
  /\ class_window = << >>
  /\ has_window = [i \in Clients |-> FALSE]
  /\ inst_window = [i \in Clients |-> << >>]
  /\ checked = [i \in Clients |-> {}]
  /\ nops = 0

\* No client exists.
ClientOff ==
  /\ CallOff
  /\ UploadOff
  /\ WindowOff

\* The statuses run_worker returns.
Statuses == {"success", "failed", "timeout", "error"}

ItemKey(item) == <<item.phase, item.subject, item.chapter>>

\* The threads of the deterministic items' pool: min(5, len(non_api_items)).
NON_API_POOL == 5

IsApi(item) == item.api_needed
IsNonApi(item) == ~item.api_needed

\* The items of the wave being executed.
CurrentItems == waves[wave_order[wave_idx]]

\* api_items / non_api_items of execute_wave.
ApiItemsOf(items) == SelectSeq(items, IsApi)
NonApiItemsOf(items) == SelectSeq(items, IsNonApi)

\* list(subject_groups.keys()): subjects in order of first appearance.
RECURSIVE GroupSubjects(_)
GroupSubjects(items) ==
  IF items = << >> THEN << >>
  ELSE LET rest == GroupSubjects(SubSeq(items, 1, Len(items) - 1))
           s == items[Len(items)].subject
       IN IF s \in Range(rest) THEN rest ELSE Append(rest, s)

\* worker_queues[key_idx]: the items of the subjects assigned to key_idx,
\* subject after subject, each subject's items in wave order.
RECURSIVE QueueOf(_, _, _, _, _)
QueueOf(items, subjects, nworkers, key_idx, i) ==
  IF i > Len(subjects) THEN << >>
  ELSE (IF (i - 1) % nworkers = key_idx
        THEN LET OfSubject(it) == it.subject = subjects[i]
             IN SelectSeq(items, OfSubject)
        ELSE << >>)
       \o QueueOf(items, subjects, nworkers, key_idx, i + 1)

\* Mutant: the keys are dealt item by item, whatever the subject.
AssignedQueue_ByItem(q, key_idx, nworkers) ==
  [j \in 1..Len(q) |-> [item |-> q[j], key |-> (key_idx + j) % nworkers]]

\* for item in queue: assigned_items.append((item, key_idx))
AssignedQueue(q, key_idx, nworkers) ==
  [j \in 1..Len(q) |-> [item |-> q[j], key |-> key_idx]]

\* assigned_items: the queues flattened in key order, each item with its key.
RECURSIVE AssignedFrom(_, _, _)
AssignedFrom(items, nworkers, key_idx) ==
  IF key_idx >= nworkers THEN << >>
  ELSE LET q == QueueOf(items, GroupSubjects(items), nworkers, key_idx, 1)
       IN AssignedQueue(q, key_idx, nworkers)
            \o AssignedFrom(items, nworkers, key_idx + 1)

AssignedItems(items, nworkers) == AssignedFrom(items, nworkers, 0)

\* Mutant: the busy-key check is dropped.
Dispatchable_NoBusyCheck == {i \in 1..Len(pending) : TRUE}

\* Positions of the pending call-items whose key is not busy.
Dispatchable == {i \in 1..Len(pending) : pending[i].key \notin active_keys}

\* Mutant: the scan for a free key starts from the end of pending.
NextDispatch_Last == CHOOSE i \in Dispatchable : \A j \in Dispatchable : i >= j

\* The item the inner loop submits next: pending[0] if its key is free,
\* else the first later one whose key is free.
NextDispatch == CHOOSE i \in Dispatchable : \A j \in Dispatchable : i <= j

IsDone(f) == f.done
IsRunning(f) == ~f.done

ResultOf(f) == [item |-> f.item, status |-> f.status]

\* map ResultOf over a sequence of futures
ResultsOf(fs) == [i \in 1..Len(fs) |-> ResultOf(fs[i])]

\* Keys of the items an orchestrator run can be handed.
ItemKeys == {k \in AllArtifacts : ~Exempt(k[1], k[2])}

\* ------------------------------------------------- parallel_pipeline.main
\* The phases whose artifacts may be missing when a run starts: call-items
\* and deterministic items of every wave.
FocusPhases == {30, 40, 60, 70, 80, 81, 90}

\* The artifacts that may be missing when a run starts: those of the first
\* chapter and the book-level ones (later chapters are complete), for the
\* phases explored; for the second book, those of call-items.
FocusKeys ==
  {k \in ItemKeys :
     /\ k[3] <= 1
     /\ k[1] \in FocusPhases
     /\ k[2] = "cars" => k[1] \in {30, 60}}

\* The state at process start: some artifacts are on disk, at most MaxItems
\* of them missing; the files of exempt (subject, phase) pairs never exist.
WaveInit ==
  /\ \E todo \in SubsetsUpTo(FocusKeys, MaxItems) : artifacts = ItemKeys \ todo
  /\ max_workers \in 1..MaxWorkers
  /\ wave_arg \in 0..4
  /\ pc = "start"
  /\ matrix = EmptyDict
  /\ waves = [w \in 1..4 |-> << >>]
  /\ wave_order = << >>
  /\ wave_idx = 0
  /\ results = << >>
  /\ all_results = << >>
  /\ nfutures = << >>
  /\ pending = << >>
  /\ active_keys = {}
  /\ futures = << >>
  /\ ndispatch = [k \in ItemKeys |-> 0]
  /\ artifacts_at_start = artifacts
  /\ RunnerOff
  /\ ClientOff
  /\ AutoOff

\* matrix = get_completion_matrix(); waves = generate_work_items(matrix)
Schedule ==
  /\ pc = "start"
  /\ matrix' = get_completion_matrix(artifacts)
  /\ waves' = generate_work_items(matrix')
  /\ pc' = "plan"
  /\ UNCHANGED <<artifacts, max_workers, wave_arg, wave_order, wave_idx,
                 results, all_results, nfutures, pending, active_keys,
                 futures, ndispatch>>
  /\ UNCHANGED artifacts_at_start
  /\ UNCHANGED <<rvars, cvars, avars>>

TotalItems == Len(waves[1]) + Len(waves[2]) + Len(waves[3]) + Len(waves[4])

\* if total == 0: return
NothingToDo ==
  /\ pc = "plan"
  /\ TotalItems = 0
  /\ pc' = "done"
  /\ UNCHANGED <<artifacts, max_workers, wave_arg, matrix, waves, wave_order,
                 wave_idx, results, all_results, nfutures, pending,
                 active_keys, futures, ndispatch>>
  /\ UNCHANGED artifacts_at_start
  /\ UNCHANGED <<rvars, cvars, avars>>

\* wave_order = ["wave1", ..., "wave4"], or the one wave of --wave
PlanWaves ==
  /\ pc = "plan"
  /\ TotalItems > 0
  /\ wave_order' = IF wave_arg # 0 THEN <<wave_arg>> ELSE <<1, 2, 3, 4>>
  /\ wave_idx' = 1
  /\ pc' = "next_wave"
  /\ UNCHANGED <<artifacts, max_workers, wave_arg, matrix, waves, results,
                 all_results, nfutures, pending, active_keys, futures,
                 ndispatch>>
  /\ UNCHANGED artifacts_at_start
  /\ UNCHANGED <<rvars, cvars, avars>>

\* for wave_name in wave_order: if not items: continue
SkipWave ==
  /\ pc = "next_wave"
  /\ wave_idx <= Len(wave_order)
  /\ CurrentItems = << >>
  /\ wave_idx' = wave_idx + 1
  /\ UNCHANGED <<artifacts, max_workers, wave_arg, pc, matrix, waves,
                 wave_order, results, all_results, nfutures, pending,
                 active_keys, futures, ndispatch>>
  /\ UNCHANGED artifacts_at_start
  /\ UNCHANGED <<rvars, cvars, avars>>

\* The state of execute_wave when its call-item loop starts.
StartApi(items) ==
  /\ pending' = AssignedItems(ApiItemsOf(items), max_workers)
  /\ active_keys' = {}
  /\ futures' = << >>

\* execute_wave(...) is entered: the deterministic items are all submitted
\* to their own pool; without any, the call-items are assigned to keys.
BeginWave ==
  /\ pc = "next_wave"
  /\ wave_idx <= Len(wave_order)
  /\ CurrentItems # << >>
  /\ results' = << >>
  /\ LET non_api == NonApiItemsOf(CurrentItems)
     IN IF non_api # << >>
        THEN /\ nfutures' = [i \in 1..Len(non_api) |->
                               [item |-> non_api[i], st |-> "queued"]]
             /\ ndispatch' = [k \in ItemKeys |->
                               IF \E i \in 1..Len(non_api) : ItemKey(non_api[i]) = k
                               THEN ndispatch[k] + 1 ELSE ndispatch[k]]
             /\ pc' = "nonapi"
             /\ UNCHANGED <<pending, active_keys, futures>>
        ELSE /\ StartApi(CurrentItems)
             /\ pc' = "dispatch"
             /\ UNCHANGED <<nfutures, ndispatch>>
  /\ UNCHANGED <<artifacts, max_workers, wave_arg, matrix, waves, wave_order,
                 wave_idx, all_results>>
  /\ UNCHANGED artifacts_at_start
  /\ UNCHANGED <<rvars, cvars, avars>>

NonApiRunning == {i \in 1..Len(nfutures) : nfutures[i].st = "running"}
NonApiQueued == {i \in 1..Len(nfutures) : nfutures[i].st = "queued"}

\* A thread of the deterministic pool takes the next queued item.
NonApiStart ==
  /\ pc = "nonapi"
  /\ NonApiQueued # {}
  /\ Cardinality(NonApiRunning) < Min(NON_API_POOL, Len(nfutures))
  /\ LET i == CHOOSE q \in NonApiQueued : \A r \in NonApiQueued : q <= r
     IN nfutures' = [nfutures EXCEPT ![i].st = "running"]
  /\ UNCHANGED <<artifacts, max_workers, wave_arg, pc, matrix, waves,
                 wave_order, wave_idx, results, all_results, pending,
                 active_keys, futures, ndispatch>>
  /\ UNCHANGED artifacts_at_start
  /\ UNCHANGED <<rvars, cvars, avars>>

\* The output directory after a unit for `item` has stopped; wrote: the unit
\* left a file that check_phase_done accepts for the item.
UnitOutput(files, item, wrote) ==
  IF wrote THEN files \cup {ItemKey(item)} ELSE files

\* run_worker(item, 0) returns; as_completed yields it: results.append
NonApiFinish ==
  /\ pc = "nonapi"
  /\ \E i \in NonApiRunning, s \in Statuses, wrote \in BOOLEAN :
       /\ nfutures' = [nfutures EXCEPT ![i].st = "done"]
       /\ results' = Append(results, [item |-> nfutures[i].item, status |-> s])
       /\ artifacts' = UnitOutput(artifacts, nfutures[i].item, wrote)
  /\ UNCHANGED <<max_workers, wave_arg, pc, matrix, waves,
                 wave_order, wave_idx, all_results, pending, active_keys,
                 futures, ndispatch>>
  /\ UNCHANGED artifacts_at_start
  /\ UNCHANGED <<rvars, cvars, avars>>

\* The deterministic pool is drained: on to the call-items (or the summary).
NonApiEnd ==
  /\ pc = "nonapi"
  /\ \A i \in 1..Len(nfutures) : nfutures[i].st = "done"
  /\ nfutures' = << >>
  /\ IF ApiItemsOf(CurrentItems) # << >>
     THEN StartApi(CurrentItems) /\ pc' = "dispatch"
     ELSE pc' = "summary" /\ UNCHANGED <<pending, active_keys, futures>>
  /\ UNCHANGED <<artifacts, max_workers, wave_arg, matrix, waves, wave_order,
                 wave_idx, results, all_results, ndispatch>>
  /\ UNCHANGED artifacts_at_start
  /\ UNCHANGED <<rvars, cvars, avars>>

\* executor.submit(run_worker, item, key_idx) for the first pending item whose
\* key is free.
Dispatch ==
  /\ pc = "dispatch"
  /\ Dispatchable # {}
  /\ LET i == NextDispatch
         p == pending[i]
     IN /\ active_keys' = active_keys \cup {p.key}
        /\ futures' = Append(futures, [item |-> p.item, key |-> p.key,
                                       done |-> FALSE, status |-> "running"])
        /\ pending' = RemoveAt(pending, i)
        /\ ndispatch' = [ndispatch EXCEPT ![ItemKey(p.item)] = @ + 1]
  /\ UNCHANGED <<artifacts, max_workers, wave_arg, pc, matrix, waves,
                 wave_order, wave_idx, results, all_results, nfutures>>
  /\ UNCHANGED artifacts_at_start
  /\ UNCHANGED <<rvars, cvars, avars>>

\* Mutant: the wave returns once nothing more can be submitted, without
\* waiting for the units in flight.
DispatchBreak_NoWait ==
  /\ pc = "dispatch"
  /\ Dispatchable = {}
  /\ pc' = "summary"
  /\ UNCHANGED <<artifacts, max_workers, wave_arg, matrix, waves, wave_order,
                 wave_idx, results, all_results, nfutures, pending,
                 active_keys, futures, ndispatch>>
  /\ UNCHANGED artifacts_at_start
  /\ UNCHANGED <<rvars, cvars, avars>>

\* The inner loop ends: pending is empty or every pending key is busy.
DispatchBreak ==
  /\ pc = "dispatch"
  /\ Dispatchable = {}
  /\ pc' = "collect"
  /\ UNCHANGED <<artifacts, max_workers, wave_arg, matrix, waves, wave_order,
                 wave_idx, results, all_results, nfutures, pending,
                 active_keys, futures, ndispatch>>
  /\ UNCHANGED artifacts_at_start
  /\ UNCHANGED <<rvars, cvars, avars>>

\* A unit ends (exit code, timeout or crash): run_worker returns its status.
WorkerFinish ==
  /\ pc \in {"dispatch", "collect"}
  /\ \E i \in 1..Len(futures), s \in Statuses, wrote \in BOOLEAN :
       /\ ~futures[i].done
       /\ futures' = [futures EXCEPT ![i].done = TRUE, ![i].status = s]
       /\ artifacts' = UnitOutput(artifacts, futures[i].item, wrote)
  /\ UNCHANGED <<max_workers, wave_arg, pc, matrix, waves,
                 wave_order, wave_idx, results, all_results, nfutures,
                 pending, active_keys, ndispatch>>
  /\ UNCHANGED artifacts_at_start
  /\ UNCHANGED <<rvars, cvars, avars>>

\* No future is done yet: time.sleep(0.5); continue
WaitPoll ==
  /\ pc = "collect"
  /\ futures # << >>
  /\ \A i \in 1..Len(futures) : ~futures[i].done
  /\ pc' = "dispatch"
  /\ UNCHANGED <<artifacts, max_workers, wave_arg, matrix, waves, wave_order,
                 wave_idx, results, all_results, nfutures, pending,
                 active_keys, futures, ndispatch>>
  /\ UNCHANGED artifacts_at_start
  /\ UNCHANGED <<rvars, cvars, avars>>

\* Mutant: `while pending:`.
LoopOrExit_PendingOnly(p, f) == IF p = << >> THEN "summary" ELSE "dispatch"

\* Where the loop `while pending or futures` goes next.
LoopOrExit(p, f) == IF p = << >> /\ f = << >> THEN "summary" ELSE "dispatch"

\* Mutant: the key of a collected future stays marked busy.
FreedKeys_None(done) == {}

\* active_keys.discard(key_idx) for each done future.
FreedKeys(done) == {f.key : f \in Range(done)}

\* Every done future is popped: its key is freed, its result appended.
Collect ==
  /\ pc = "collect"
  /\ \E i \in 1..Len(futures) : futures[i].done
  /\ LET done_futures == SelectSeq(futures, IsDone)
     IN /\ futures' = SelectSeq(futures, IsRunning)
        /\ active_keys' = active_keys \ FreedKeys(done_futures)
        /\ results' = results \o ResultsOf(done_futures)
  /\ pc' = LoopOrExit(pending, futures')
  /\ UNCHANGED <<artifacts, max_workers, wave_arg, matrix, waves, wave_order,
                 wave_idx, all_results, nfutures, pending, ndispatch>>
  /\ UNCHANGED artifacts_at_start
  /\ UNCHANGED <<rvars, cvars, avars>>

\* Mutant: the wave loop ends at the first wave with a failure.
AfterWave_StopOnFailure(idx, rs) ==
  IF \E i \in 1..Len(rs) : rs[i].status # "success"
  THEN Len(wave_order) + 1 ELSE idx + 1

\* The position in wave_order after the wave at idx returned the results rs:
\* failures are counted and printed, and the for loop goes on.
AfterWave(idx, rs) == idx + 1

\* execute_wave returns its results; main extends all_results.
EndWave ==
  /\ pc = "summary"
  /\ all_results' = all_results \o results
  /\ wave_idx' = AfterWave(wave_idx, results)
  /\ pc' = "next_wave"
  /\ UNCHANGED <<artifacts, max_workers, wave_arg, matrix, waves, wave_order,
                 results, nfutures, pending, active_keys, futures, ndispatch>>
  /\ UNCHANGED artifacts_at_start
  /\ UNCHANGED <<rvars, cvars, avars>>

\* The wave loop is over: the run log is saved, the summary printed.
Finish ==
  /\ pc = "next_wave"
  /\ wave_idx > Len(wave_order)
  /\ pc' = "done"
  /\ UNCHANGED <<artifacts, max_workers, wave_arg, matrix, waves, wave_order,
                 wave_idx, results, all_results, nfutures, pending,
                 active_keys, futures, ndispatch>>
  /\ UNCHANGED artifacts_at_start
  /\ UNCHANGED <<rvars, cvars, avars>>

\* The next run of the orchestrator makes its scheduling pass over the
\* output directory this run left (this run's results are kept as history).
NextPass ==
  /\ pc = "done"
  /\ matrix' = get_completion_matrix(artifacts)
  /\ waves' = generate_work_items(matrix')
  /\ pc' = "next_pass"
  /\ UNCHANGED <<artifacts, max_workers, wave_arg, wave_order, wave_idx,
                 results, all_results, nfutures, pending, active_keys,
                 futures, ndispatch>>
  /\ UNCHANGED artifacts_at_start
  /\ UNCHANGED <<rvars, cvars, avars>>

WaveNext ==
  \/ Schedule
  \/ NothingToDo
  \/ PlanWaves
  \/ SkipWave
  \/ BeginWave
  \/ NonApiStart
  \/ NonApiFinish
  \/ NonApiEnd
  \/ Dispatch
  \/ DispatchBreak
  \/ WorkerFinish
  \/ WaitPoll
  \/ Collect
  \/ EndWave
  \/ Finish
  \/ NextPass

SpecWave == WaveInit /\ [][WaveNext]_vars

\* The orchestrator with its scheduling: the main thread keeps running, and
\* every unit ends (subprocess.run has timeout=900, after which run_worker
\* returns a timeout status).
SpecWaveFair ==
  /\ WaveInit
  /\ [][WaveNext]_vars
  /\ WF_vars(WaveNext)
  /\ WF_vars(WorkerFinish)
  /\ WF_vars(NonApiFinish)

\* ------------------------------------------ generate_work_items alone
\* The matrix m in which the subjects of S have no chapters: the map of
\* every per-chapter phase is {}.
WithoutChapters(m, S) ==
  [s \in DOMAIN m |->
     IF s \in S
     THEN [p \in DOMAIN m[s] |->
             IF p \in ChapterPhases THEN EmptyDict ELSE m[s][p]]
     ELSE m[s]]

\* The matrices generate_work_items is given: those get_completion_matrix
\* builds from output directories with at most MaxItems artifacts missing,
\* and the same with the chapter maps of some subjects empty.
MatrixInputs ==
  {WithoutChapters(get_completion_matrix(ItemKeys \ todo), S) :
     todo \in SubsetsUpTo(ItemKeys, MaxItems), S \in SUBSET Subjects}

\* A caller holds a matrix and has not yet called generate_work_items.
ItemsInit ==
  /\ matrix \in MatrixInputs
  /\ pc = "given"
  /\ artifacts = {}
  /\ max_workers = 1
  /\ wave_arg = 0
  /\ waves = [w \in 1..4 |-> << >>]
  /\ wave_order = << >>
  /\ wave_idx = 0
  /\ results = << >>
  /\ all_results = << >>
  /\ nfutures = << >>
  /\ pending = << >>
  /\ active_keys = {}
  /\ futures = << >>
  /\ ndispatch = [k \in AllArtifacts |-> 0]
  /\ artifacts_at_start = {}
  /\ RunnerOff
  /\ ClientOff
  /\ AutoOff

\* waves = generate_work_items(matrix)
GenerateItems ==
  /\ pc = "given"
  /\ waves' = generate_work_items(matrix)
  /\ pc' = "generated"
  /\ UNCHANGED <<artifacts, max_workers, wave_arg, matrix, wave_order,
                 wave_idx, results, all_results, nfutures, pending,
                 active_keys, futures, ndispatch, artifacts_at_start>>
  /\ UNCHANGED <<rvars, cvars, avars>>

ItemsNext == GenerateItems

SpecItems == ItemsInit /\ [][ItemsNext]_vars

\* -------------------------------------------------- worker pool: claims
InFlight == 1..Len(futures)

\* The units of call-items that are running.
RunningUnits == {i \in InFlight : ~futures[i].done}

\* The item with key k has a result in rs.
HasResult(rs, k) == \E i \in 1..Len(rs) : ItemKey(rs[i].item) = k

\* How many results rs holds for the item with key k.
ResultCount(rs, k) == Cardinality({i \in 1..Len(rs) : ItemKey(rs[i].item) = k})

\* C1: no two submitted-but-uncollected call-items hold the same key index,
\* and the busy set is exactly the set of keys of the items in flight (a key
\* is marked at submission and freed only at collection).
C1_SlotExclusive ==
  /\ \A i, j \in InFlight : i # j => futures[i].key # futures[j].key
  /\ active_keys = {futures[i].key : i \in InFlight}

\* C1 witness: a pending call-item is held back because its key is busy with
\* a unit that is still running.
C1_Witness ==
  /\ pc = "collect"
  /\ \E i \in 1..Len(pending), j \in RunningUnits :
       pending[i].key = futures[j].key

\* C2: for waves A before B of the run, an item of B is submitted only when
\* every item of A has its terminal status in all_results.
C2_WavesInOrder ==
  \A a, b \in 1..Len(wave_order) :
    a < b =>
      \A y \in Range(waves[wave_order[b]]) :
        ndispatch[ItemKey(y)] > 0 =>
          \A x \in Range(waves[wave_order[a]]) :
            /\ HasResult(all_results, ItemKey(x))
            /\ \A i \in 1..Len(all_results) : all_results[i].status \in Statuses

\* C2 witness: an item of a later wave is submitted after an earlier wave
\* that had an item ending in failure.
C2_Witness ==
  \E a, b \in 1..Len(wave_order) :
    /\ a < b
    /\ \E y \in Range(waves[wave_order[b]]) : ndispatch[ItemKey(y)] > 0
    /\ \E i \in 1..Len(all_results) :
         /\ all_results[i].item \in Range(waves[wave_order[a]])
         /\ all_results[i].status # "success"

\* C9: no item is submitted twice; when execute_wave returns, the pending
\* queue, the in-flight set and the deterministic pool are empty and the
\* results hold exactly one terminal status for every item of the wave, each
\* submitted exactly once.
C9_ItemStateMachine ==
  /\ \A k \in ItemKeys : ndispatch[k] <= 1
  /\ pc = "summary" =>
       /\ pending = << >>
       /\ futures = << >>
       /\ nfutures = << >>
       /\ Len(results) = Len(CurrentItems)
       /\ \A x \in Range(CurrentItems) :
            /\ ResultCount(results, ItemKey(x)) = 1
            /\ ndispatch[ItemKey(x)] = 1
       /\ \A i \in 1..Len(results) :
            /\ results[i].status \in Statuses
            /\ results[i].item \in Range(CurrentItems)

\* C9 witness: execute_wave returns with two items resolved, one call-item
\* that timed out and one that succeeded.
C9_Witness ==
  /\ pc = "summary"
  /\ Len(results) = 2
  /\ \E i, j \in 1..2 :
       /\ results[i].status = "timeout"
       /\ results[j].status = "success"
       /\ results[i].item.api_needed

\* What the completion matrix of the run says of an item.
MarkedDone(x) ==
  IF x.subject = "global" THEN matrix["_global"][x.phase][0]
  ELSE IF x.phase \in BookPhases THEN matrix[x.subject][x.phase][0]
  ELSE matrix[x.subject][x.phase][x.chapter]

\* C8: when a scheduling pass has produced the waves, every item of every
\* wave is marked not done by the completion matrix computed from the
\* artifacts, its own artifact is not on disk, and its (subject, phase) pair
\* is not an exempt one.
C8_EmittedOnlyIfNotDone ==
  pc = "plan" =>
    \A w \in 1..4 :
      \A x \in Range(waves[w]) :
        /\ ~MarkedDone(x)
        /\ ItemKey(x) \notin artifacts
        /\ ~Exempt(x.phase, x.subject)

\* C8 witness: a pass that emits the chapter-1 section item of cars while the
\* same artifact of psych_soc exists and is not emitted, and emits nothing
\* for the exempt pair (cars, phase 2) although cars has no phase-2 file.
C8_Witness ==
  /\ pc = "plan"
  /\ <<30, "psych_soc", 1>> \in artifacts
  /\ <<20, "cars", 1>> \notin artifacts
  /\ \E i \in 1..Len(waves[1]) : ItemKey(waves[1][i]) = <<30, "cars", 1>>
  /\ \A w \in 1..4 : \A x \in Range(waves[w]) :
       ItemKey(x) \notin {<<30, "psych_soc", 1>>, <<20, "cars", 1>>}

\* The credential run_worker puts in a unit's environment, for a .env that
\* holds GEMINI_API_KEY_1..GEMINI_API_KEY_<numbered> and the default
\* GEMINI_API_KEY (written 0): _ENV_VALS.get(key_var, default).
api_key(numbered, key_index) ==
  IF key_index + 1 <= numbered THEN key_index + 1 ELSE 0

\* The distinct credentials such a .env configures.
Credentials(numbered) == {0} \cup 1..numbered

\* C10 (as claimed): for every pool size and every set of configured
\* credentials, at most min(W, K) units of call-items run at once and no two
\* of them are given the same credential value.
C10_BoundedByCredentials ==
  \A numbered \in 0..MaxWorkers :
    /\ Cardinality(RunningUnits)
         <= Min(max_workers, Cardinality(Credentials(numbered)))
    /\ \A i, j \in RunningUnits :
         i # j => api_key(numbered, futures[i].key)
                    # api_key(numbered, futures[j].key)

\* -------------------------------------------------- run_pipeline: inputs
\* The pdf arguments explored: none, and the two books modelled.
Pdfs == {NoPdf, PSYCH_PDF, CARS_PDF}

\* The values of --from, --to and --phase explored (argparse type=int).
FromArgs == {0, 10, 30, 60, 70}
ToArgs == {50, 60, 80, 110}
PhaseArgs == {NoPhase, 80, 90}

\* The statuses a checkpoint on disk may carry.
LedgerStatuses == {"completed", "interrupted", "failed"}

\* The command lines explored.  bare: nothing but the program name.
ArgLines ==
  {[NoArgs EXCEPT !.pdf = p, !.chapter = c, !.from_phase = f, !.to = t,
                  !.phase = o, !.resume = r] :
     p \in Pdfs, c \in 0..NUM_CHAPTERS, f \in FromArgs, t \in ToArgs,
     o \in PhaseArgs, r \in BOOLEAN}

\* The file after an earlier run for (p, c) has checkpointed the first k
\* phases of PHASE_ORDER.
RECURSIVE SavedUpTo(_, _, _, _)
SavedUpTo(file, p, c, k) ==
  IF k = 0 THEN file
  ELSE SavePhase(SavedUpTo(file, p, c, k - 1), PHASE_ORDER[k], p, c)

\* The file an earlier run left: k phases checkpointed, and then, for a
\* status other than completed, the last one recorded again with that status.
PriorRun(p, c, k, st) ==
  LET file == SavedUpTo(MissingFile, p, c, k)
      last == file.last_run
  IN IF st = "completed" THEN file
     ELSE save_checkpoint(file, last.pdf, last.chapter, last.phase, st)

\* The file two earlier runs left, one for each book: each has checkpointed
\* phase 0 alone (k = 1) or the phases up to phase 3 (k = 4).
TwoBookLedgers ==
  {SavedUpTo(SavedUpTo(MissingFile, PSYCH_PDF, c1, k1), CARS_PDF, c2, k2) :
     c1 \in 0..NUM_CHAPTERS, c2 \in 0..NUM_CHAPTERS,
     k1 \in {1, 4}, k2 \in {1, 4}}

\* The checkpoint files a run may find.
PriorLedgers ==
  {MissingFile, UnreadableFile}
    \cup {PriorRun(p, c, k, st) :
            p \in Pdfs \ {NoPdf}, c \in 0..NUM_CHAPTERS,
            k \in 1..Len(PHASE_ORDER), st \in LedgerStatuses}
    \cup TwoBookLedgers

\* ------------------------------------------------------ run_pipeline.main
RunInit ==
  /\ ckpt \in PriorLedgers
  /\ args = NoArgs
  /\ pdf = NoPdf
  /\ chapter = 0
  /\ from_phase = 0
  /\ to_phase = 110
  /\ rpc = "start"
  /\ step = 0
  /\ CURRENT_PHASE = NoPhase
  /\ INTERRUPT_COUNT = 0
  /\ INTERRUPT_REQUESTED = FALSE
  /\ units = << >>
  /\ PoolOff
  /\ ClientOff
  /\ AutoOff

\* config.INTERRUPT_REQUESTED = False; args = parser.parse_args(); the
\* locals are set from it.
Parse ==
  /\ rpc = "start"
  /\ INTERRUPT_REQUESTED' = FALSE
  /\ \E a \in ArgLines :
       /\ args' = a
       /\ pdf' = a.pdf
       /\ chapter' = a.chapter
       /\ from_phase' = a.from_phase
       /\ to_phase' = a.to
  /\ rpc' = "resume"
  /\ UNCHANGED <<ckpt, step, CURRENT_PHASE, INTERRUPT_COUNT>>
  /\ UNCHANGED units
  /\ UNCHANGED <<wvars, cvars, avars>>

\* if args.resume: ... (the block ends before the --phase override)
Resume ==
  /\ rpc = "resume"
  /\ LET last == get_last_checkpoint(ckpt)
     IN IF args.resume /\ last # NoCheckpoint
        THEN /\ pdf' = last.pdf
             /\ chapter' = last.chapter
             /\ from_phase' = ResumeFrom(last)
        ELSE UNCHANGED <<pdf, chapter, from_phase>>
  /\ rpc' = "validate"
  /\ UNCHANGED <<ckpt, args, to_phase, step, CURRENT_PHASE>>
  /\ UNCHANGED <<INTERRUPT_COUNT, INTERRUPT_REQUESTED>>
  /\ UNCHANGED units
  /\ UNCHANGED <<wvars, cvars, avars>>

\* The --phase override, then the prerequisite validation of from_phase.
Validate ==
  /\ rpc = "validate"
  /\ from_phase' = IF args.phase # NoPhase THEN args.phase ELSE from_phase
  /\ to_phase' = IF args.phase # NoPhase THEN args.phase ELSE to_phase
  /\ IF check_prerequisites(ckpt, pdf, chapter, from_phase').ok
     THEN rpc' = "block" /\ step' = 1
     ELSE rpc' = "refused" /\ UNCHANGED step
  /\ UNCHANGED <<ckpt, args, pdf, chapter, CURRENT_PHASE>>
  /\ UNCHANGED <<INTERRUPT_COUNT, INTERRUPT_REQUESTED>>
  /\ UNCHANGED units
  /\ UNCHANGED <<wvars, cvars, avars>>

\* if from_phase <= N <= to_phase
InRange(phase) == from_phase <= BlockOf(phase) /\ BlockOf(phase) <= to_phase

\* The block of the next phase is not in range: it is passed over.
SkipPhase ==
  /\ rpc = "block"
  /\ step <= Len(PHASE_ORDER)
  /\ ~InRange(PHASE_ORDER[step])
  /\ step' = step + 1
  /\ UNCHANGED <<ckpt, args, pdf, chapter, from_phase, to_phase, rpc,
                 CURRENT_PHASE>>
  /\ UNCHANGED <<INTERRUPT_COUNT, INTERRUPT_REQUESTED>>
  /\ UNCHANGED units
  /\ UNCHANGED <<wvars, cvars, avars>>

\* The next phase is in range: run_phaseN(...) is called.
StartPhase ==
  /\ rpc = "block"
  /\ step <= Len(PHASE_ORDER)
  /\ InRange(PHASE_ORDER[step])
  /\ CURRENT_PHASE' = IF PHASE_ORDER[step] \in SETS_CURRENT_PHASE
                      THEN PHASE_ORDER[step] ELSE CURRENT_PHASE
  /\ rpc' = "running"
  /\ UNCHANGED <<ckpt, args, pdf, chapter, from_phase, to_phase, step>>
  /\ UNCHANGED <<INTERRUPT_COUNT, INTERRUPT_REQUESTED>>
  /\ UNCHANGED units
  /\ UNCHANGED <<wvars, cvars, avars>>

\* run_phaseN(...) returns: save_checkpoint(...), on to the next block.
FinishPhase ==
  /\ rpc = "running"
  /\ ckpt' = SavePhase(ckpt, PHASE_ORDER[step], pdf, chapter)
  /\ step' = step + 1
  /\ rpc' = "block"
  /\ UNCHANGED <<args, pdf, chapter, from_phase, to_phase, CURRENT_PHASE>>
  /\ UNCHANGED <<INTERRUPT_COUNT, INTERRUPT_REQUESTED>>
  /\ UNCHANGED units
  /\ UNCHANGED <<wvars, cvars, avars>>

\* run_phaseN(...) raises: the exception leaves main, nothing is recorded.
PhaseRaises ==
  /\ rpc = "running"
  /\ rpc' = "crashed"
  /\ UNCHANGED <<ckpt, args, pdf, chapter, from_phase, to_phase, step,
                 CURRENT_PHASE>>
  /\ UNCHANGED <<INTERRUPT_COUNT, INTERRUPT_REQUESTED>>
  /\ UNCHANGED units
  /\ UNCHANGED <<wvars, cvars, avars>>

\* Every block is passed: "PIPELINE COMPLETE".
Complete ==
  /\ rpc = "block"
  /\ step > Len(PHASE_ORDER)
  /\ rpc' = "done"
  /\ UNCHANGED <<ckpt, args, pdf, chapter, from_phase, to_phase, step,
                 CURRENT_PHASE>>
  /\ UNCHANGED <<INTERRUPT_COUNT, INTERRUPT_REQUESTED>>
  /\ UNCHANGED units
  /\ UNCHANGED <<wvars, cvars, avars>>

\* _sigint_handler on the first SIGINT while main runs: the flag is set and
\* the handler returns; the run goes on where it was.
FirstSigint ==
  /\ rpc \in {"resume", "validate", "block", "running"}
  /\ INTERRUPT_COUNT = 0
  /\ INTERRUPT_COUNT' = 1
  /\ INTERRUPT_REQUESTED' = TRUE
  /\ UNCHANGED <<ckpt, args, pdf, chapter, from_phase, to_phase, rpc, step,
                 CURRENT_PHASE>>
  /\ UNCHANGED units
  /\ UNCHANGED <<wvars, cvars, avars>>

\* _sigint_handler on a later SIGINT raises KeyboardInterrupt, which leaves
\* main: the __main__ handler records an interrupted checkpoint for
\* CURRENT_PHASE, or else for the last checkpoint's phase.
Interrupt ==
  /\ rpc \in {"resume", "validate", "block", "running"}
  /\ INTERRUPT_COUNT >= 1
  /\ INTERRUPT_COUNT' = INTERRUPT_COUNT + 1
  /\ LET last == get_last_checkpoint(ckpt)
     IN ckpt' =
          IF CURRENT_PHASE # NoPhase
          THEN save_checkpoint(ckpt, last.pdf, last.chapter, CURRENT_PHASE,
                               "interrupted")
          ELSE IF last # NoCheckpoint
          THEN save_checkpoint(ckpt, last.pdf, last.chapter, last.phase,
                               "interrupted")
          ELSE ckpt
  /\ rpc' = "interrupted"
  /\ UNCHANGED <<args, pdf, chapter, from_phase, to_phase, step,
                 CURRENT_PHASE, INTERRUPT_REQUESTED>>
  /\ UNCHANGED units
  /\ UNCHANGED <<wvars, cvars, avars>>

RunNext ==
  \/ Parse
  \/ Resume
  \/ Validate
  \/ SkipPhase
  \/ StartPhase
  \/ FinishPhase
  \/ PhaseRaises
  \/ Complete
  \/ FirstSigint
  \/ Interrupt

SpecRun == RunInit /\ [][RunNext]_vars

\* ------------------------------------- concurrent save_checkpoint calls
\* The (pdf, chapter, phase) of the checkpoints recorded concurrently.
Triples == (Pdfs \ {NoPdf}) \X (0..NUM_CHAPTERS) \X {30, 60}

\* A process is at its call of save_checkpoint(pdf, chapter, phase, ...).
UnitAt(t) ==
  [upc |-> "call", pdf |-> t[1], chapter |-> t[2], phase |-> t[3],
   data |-> MissingFile]

\* Two processes of run_pipeline are each about to record a checkpoint, for
\* distinct (subject, chapter, phase) triples, over the file an earlier run
\* left.
LedgerInit ==
  /\ ckpt \in {MissingFile} \cup {SavedUpTo(MissingFile, p, c, 2) :
                                    p \in Pdfs \ {NoPdf}, c \in 0..NUM_CHAPTERS}
  /\ \E t1, t2 \in Triples :
       /\ t1 # t2
       /\ units = <<UnitAt(t1), UnitAt(t2)>>
  /\ args = NoArgs
  /\ pdf = NoPdf
  /\ chapter = 0
  /\ from_phase = 0
  /\ to_phase = 110
  /\ rpc = "off"
  /\ step = 0
  /\ CURRENT_PHASE = NoPhase
  /\ INTERRUPT_COUNT = 0
  /\ INTERRUPT_REQUESTED = FALSE
  /\ PoolOff
  /\ ClientOff
  /\ AutoOff

LedgerUnchanged ==
  /\ UNCHANGED <<args, pdf, chapter, from_phase, to_phase, rpc, step,
                 CURRENT_PHASE, INTERRUPT_COUNT, INTERRUPT_REQUESTED>>
  /\ UNCHANGED <<wvars, cvars, avars>>

\* if CHECKPOINT_FILE.exists(): data = json.load(f); a JSONDecodeError is
\* passed over and data stays the empty document.
ReadLedger(u) ==
  /\ units[u].upc = "call"
  /\ units' = [units EXCEPT ![u].upc = "loaded", ![u].data = ckpt]
  /\ UNCHANGED ckpt
  /\ LedgerUnchanged

\* open(CHECKPOINT_FILE, "w"): the file is truncated.
OpenLedger(u) ==
  /\ units[u].upc = "loaded"
  /\ ckpt' = UnreadableFile
  /\ units' = [units EXCEPT ![u].upc = "opened"]
  /\ LedgerUnchanged

\* json.dump(data, f): the document built from what was loaded is written.
DumpLedger(u) ==
  /\ units[u].upc = "opened"
  /\ ckpt' = save_checkpoint(units[u].data, units[u].pdf, units[u].chapter,
                             units[u].phase, "completed")
  /\ units' = [units EXCEPT ![u].upc = "saved"]
  /\ LedgerUnchanged

LedgerNext ==
  \E u \in 1..2 :
    \/ ReadLedger(u)
    \/ OpenLedger(u)
    \/ DumpLedger(u)

SpecLedger == LedgerInit /\ [][LedgerNext]_vars

\* ------------------------------------------------- phase runner: claims
\* C4 (as claimed): whenever a phase of the run is executing, all of its
\* declared prerequisites are recorded in the ledger for the run's subject
\* and chapter.
C4_EveryPhaseChecked ==
  rpc = "running" =>
    check_prerequisites(ckpt, pdf, chapter, PHASE_ORDER[step]).ok

\* C6 (as claimed): a step that leaves the ledger with a last_run whose status
\* is not completed changes neither the completed-phase sets nor the chapter
\* phase sets, and satisfies no prerequisite check that failed before it.
C6_SetsOnlyWhenCompleted ==
  [][(ckpt' # ckpt /\ ckpt'.last_run.status # "completed") =>
       /\ ckpt'.subjects = ckpt.subjects
       /\ \A p \in Pdfs, c \in 0..NUM_CHAPTERS, ph \in DOMAIN PHASE_DEPENDENCIES :
            check_prerequisites(ckpt', p, c, ph).ok
              => check_prerequisites(ckpt, p, c, ph).ok]_vars

\* C7: after the resume block of a run with --resume that found a last
\* checkpoint {phase P, status}, from_phase is P + 1 if the status is
\* completed and P otherwise, and pdf and chapter are those of that
\* checkpoint.
C7_ResumeLaw ==
  (rpc = "validate" /\ args.resume /\ ckpt.exists /\ ckpt.readable) =>
    /\ ckpt.last_run.status = "completed"
         => from_phase = ckpt.last_run.phase + 10
    /\ ckpt.last_run.status \in {"interrupted", "failed"}
         => from_phase = ckpt.last_run.phase
    /\ pdf = ckpt.last_run.pdf
    /\ chapter = ckpt.last_run.chapter
    /\ SubjectOf(pdf) = ckpt.last_run.subject

\* C7 witness: a run given another book and chapter resumes the interrupted
\* phase 6.1 of the last checkpoint.
C7_Witness ==
  /\ rpc = "validate"
  /\ args.resume
  /\ ckpt.exists /\ ckpt.readable
  /\ ckpt.last_run.status = "interrupted"
  /\ ckpt.last_run.phase = 61
  /\ from_phase = 61
  /\ args.pdf # pdf
  /\ args.chapter # chapter

\* ----------------------------------------------------------- GeminiClient
\* The client as __init__ leaves it.
ClientFresh ==
  /\ usage_window = << >>
  /\ cpc = "idle"
  /\ request = NoRequest
  /\ model_name = "none"
  /\ max_retries = 0
  /\ attempt = 0
  /\ raised = NoError
  /\ calls = [primary |-> 0, fallback |-> 0]
  /\ fallbacks = 0
  /\ blocked = FALSE
  /\ after_block = 0
  /\ nrequests = 0
  /\ waited = 0
  /\ primary_raised = NoError
  /\ counters = NoUsage
  /\ retries = << >>
  /\ last_text = "none"
  /\ reparses = 0
  /\ UploadOff
  /\ WindowOff
  /\ PoolOff
  /\ RunnerOff
  /\ AutoOff

\* A client has been constructed in a fresh process.
ClientInit ==
  /\ endpoint = AnyEndpoint
  /\ tracked = FALSE
  /\ ClientFresh

\* extract_light / extract_heavy: _call_with_fallback enters the primary _call.
NewRequest ==
  /\ cpc = "idle"
  /\ nrequests < MaxRequests
  /\ \E ph \in PhaseNames, m \in 1..MaxRetries :
       /\ request' = [phase |-> ph, max_retries |-> m]
       /\ max_retries' = m
  /\ model_name' = "primary"
  /\ attempt' = 0
  /\ raised' = NoError
  /\ calls' = [primary |-> 0, fallback |-> 0]
  /\ fallbacks' = 0
  /\ blocked' = FALSE
  /\ after_block' = 0
  /\ nrequests' = nrequests + 1
  /\ cpc' = "throttle"
  /\ waited' = 0
  /\ primary_raised' = NoError
  /\ retries' = << >>
  /\ last_text' = "none"
  /\ reparses' = 0
  /\ UNCHANGED <<usage_window, counters>>
  /\ UNCHANGED <<endpoint, tracked, uvars, gvars>>
  /\ UNCHANGED <<wvars, rvars, avars>>

\* Time passes between two requests.
Elapse ==
  /\ cpc = "idle"
  /\ \E d \in Durations : usage_window' = Advance(usage_window, d)
  /\ usage_window' # usage_window
  /\ UNCHANGED <<cpc, request, model_name, max_retries, attempt, raised,
                 calls, fallbacks, blocked, after_block, nrequests, waited,
                 primary_raised, counters, retries, last_text, reparses>>
  /\ UNCHANGED <<endpoint, tracked, uvars, gvars>>
  /\ UNCHANGED <<wvars, rvars, avars>>

\* _rate_limit: the window is over the ceiling with this call's estimate;
\* sleep until the oldest sample has left it, evict, check again.
RateLimitWait ==
  /\ cpc = "throttle"
  /\ LET w == Evict(usage_window)
     IN /\ OverCeiling(w, est_tokens(request.phase))
        /\ usage_window' = Evict(Advance(w, wait_time(w)))
  /\ waited' = waited + 1
  /\ UNCHANGED <<cpc, request, model_name, max_retries, attempt, raised,
                 calls, fallbacks, blocked, after_block, nrequests,
                 primary_raised, counters, retries, last_text, reparses>>
  /\ UNCHANGED <<endpoint, tracked, uvars, gvars>>
  /\ UNCHANGED <<wvars, rvars, avars>>

\* _rate_limit returns and generate_content is called.
RateLimitPass ==
  /\ cpc = "throttle"
  /\ LET w == Evict(usage_window)
     IN /\ ~OverCeiling(w, est_tokens(request.phase))
        /\ usage_window' = w
  /\ calls' = [calls EXCEPT ![model_name] = @ + 1]
  /\ after_block' = IF model_name = "primary" /\ blocked
                    THEN after_block + 1 ELSE after_block
  /\ cpc' = "endpoint"
  /\ last_text' = "none"
  /\ reparses' = 0
  /\ UNCHANGED <<request, model_name, max_retries, attempt, raised,
                 fallbacks, blocked, nrequests, waited, primary_raised,
                 counters, retries>>
  /\ UNCHANGED <<endpoint, tracked, uvars, gvars>>
  /\ UNCHANGED <<wvars, rvars, avars>>

\* The exception e leaves _call.  From the primary _call it reaches the
\* handler of _call_with_fallback, which enters the fallback _call for a
\* block or a quota error and raises e otherwise.
RaiseFromCall(e) ==
  /\ primary_raised' = IF model_name = "primary" THEN e ELSE primary_raised
  /\ UNCHANGED retries
  /\ IF model_name = "primary" /\ (is_copyright(e) \/ is_quota(e))
     THEN /\ model_name' = "fallback"
          /\ max_retries' = FALLBACK_RETRIES
          /\ attempt' = 0
          /\ fallbacks' = fallbacks + 1
          /\ cpc' = "throttle"
          /\ UNCHANGED raised
     ELSE /\ cpc' = "failed"
          /\ raised' = e
          /\ UNCHANGED <<model_name, max_retries, attempt, fallbacks>>

\* Mutant: the retry does not count as an attempt.
Retry_SameAttempt(w, delay, e) ==
  /\ usage_window' = Advance(w, delay)
  /\ retries' = retries
  /\ attempt' = attempt
  /\ cpc' = "throttle"
  /\ UNCHANGED <<model_name, max_retries, fallbacks, raised, primary_raised>>

\* time.sleep(delay) after the error e, then the next attempt of the for loop.
Retry(w, delay, e) ==
  /\ usage_window' = Advance(w, delay)
  /\ retries' = IF tracked
                THEN Append(retries, [error |-> e, delay |-> delay])
                ELSE retries
  /\ attempt' = attempt + 1
  /\ cpc' = "throttle"
  /\ UNCHANGED <<model_name, max_retries, fallbacks, raised, primary_raised>>

\* except Exception as e, with the window w.
HandleException(w, e) ==
  /\ blocked' = (blocked \/ (model_name = "primary" /\ is_copyright(e)))
  /\ IF Classify(e) # "blocked" /\ attempt < max_retries - 1
     THEN Retry(w, Delay(Classify(e), attempt), e)
     ELSE usage_window' = w /\ RaiseFromCall(e)

\* except json.JSONDecodeError as e, with the window w; repaired: the
\* cleanup makes the text parse.
HandleJsonError(w, repaired, e) ==
  /\ UNCHANGED blocked
  /\ IF attempt < max_retries - 1
     THEN /\ reparses' = 1
          /\ IF repaired
             THEN /\ usage_window' = w
                  /\ cpc' = "returned"
                  /\ UNCHANGED <<model_name, max_retries, attempt, fallbacks,
                                 raised, primary_raised, retries>>
             ELSE Retry(w, 2 ^ attempt, e)
     ELSE /\ reparses' = 0
          /\ usage_window' = w
          /\ RaiseFromCall(e)

\* generate_content returns a response after d seconds: its usage is
\* recorded, then its text is parsed.
EndpointReturns ==
  /\ cpc = "endpoint"
  /\ \E d \in Durations, u \in endpoint.usages, text \in endpoint.texts :
       LET w == Append(Advance(usage_window, d),
                       [age |-> 0, tokens |-> u.inp + u.out])
       IN /\ counters' = IF tracked
                         THEN track_usage(counters, model_name, u)
                         ELSE counters
          /\ last_text' = text
          /\ CASE text = "valid" ->
                  /\ usage_window' = w
                  /\ cpc' = "returned"
                  /\ reparses' = 0
                  /\ UNCHANGED <<model_name, max_retries, attempt, fallbacks,
                                 raised, blocked, primary_raised, retries>>
               [] text = "fence_inline" -> HandleJsonError(w, TRUE, ErrJson)
               [] text = "invalid" -> HandleJsonError(w, FALSE, ErrJson)
               [] text = "invalid_at_429" ->
                    HandleJsonError(w, FALSE, ErrJsonAt429)
               [] text = "blocked" ->
                    HandleException(w, ErrCopyright) /\ reparses' = 0
  /\ waited' = 0
  /\ UNCHANGED <<request, calls, after_block, nrequests>>
  /\ UNCHANGED <<endpoint, tracked, uvars, gvars>>
  /\ UNCHANGED <<wvars, rvars, avars>>

\* generate_content raises after d seconds.
EndpointRaises ==
  /\ cpc = "endpoint"
  /\ \E d \in Durations, e \in endpoint.errors :
       HandleException(Advance(usage_window, d), Converted(e))
  /\ waited' = 0
  /\ UNCHANGED <<counters, last_text, reparses>>
  /\ UNCHANGED <<request, calls, after_block, nrequests>>
  /\ UNCHANGED <<endpoint, tracked, uvars, gvars>>
  /\ UNCHANGED <<wvars, rvars, avars>>

\* The caller has the request's result or exception.
EndRequest ==
  /\ cpc \in {"returned", "failed"}
  /\ cpc' = "idle"
  /\ UNCHANGED <<usage_window, request, model_name, max_retries, attempt,
                 raised, calls, fallbacks, blocked, after_block, nrequests,
                 waited, primary_raised, counters, retries, last_text,
                 reparses>>
  /\ UNCHANGED <<endpoint, tracked, uvars, gvars>>
  /\ UNCHANGED <<wvars, rvars, avars>>

ClientNext ==
  \/ NewRequest
  \/ Elapse
  \/ RateLimitWait
  \/ RateLimitPass
  \/ EndpointReturns
  \/ EndpointRaises
  \/ EndRequest

SpecClient == ClientInit /\ [][ClientNext]_vars

\* A request in progress goes on: time.sleep returns, and generate_content
\* returns or raises within its request timeout.
SpecClientFair ==
  /\ ClientInit
  /\ [][ClientNext]_vars
  /\ WF_vars(RateLimitWait \/ RateLimitPass)
  /\ WF_vars(EndpointReturns \/ EndpointRaises)

\* The endpoint of a rate-limited credential: every call is answered with a
\* quota error, a server error or a response of valid JSON.
RateLimitedEndpoint ==
  [errors |-> {ErrQuota, ErrServer}, texts |-> {"valid"}, usages |-> Usages]

\* A client has been constructed in a fresh process, against such an
\* endpoint; its counters and retries are followed.
BackoffInit ==
  /\ endpoint = RateLimitedEndpoint
  /\ tracked = TRUE
  /\ ClientFresh

SpecBackoff == BackoffInit /\ [][ClientNext]_vars

\* An endpoint whose calls raise a server error or return a response, with
\* usage metadata or without, of valid JSON or of text no cleanup repairs.
FailingEndpoint ==
  [errors |-> {ErrServer}, texts |-> {"valid", "invalid"},
   usages |-> {[inp |-> 0, out |-> 0], [inp |-> 400000, out |-> 50000]}]

\* A client has been constructed in a fresh process, against such an
\* endpoint; its counters and retries are followed.
CountersInit ==
  /\ endpoint = FailingEndpoint
  /\ tracked = TRUE
  /\ ClientFresh

SpecCounters == CountersInit /\ [][ClientNext]_vars

\* ------------------------------------------------------------ upload_pdf
\* Mutant: no path is found in the cache.
Cached_Never(files, path) == FALSE

\* pdf_path in self._shared_uploaded_files
Cached(files, path) == files[path] # NoFile

\* The process has constructed its clients and uploaded nothing.
UploadInit ==
  /\ UploadOff
  /\ CallOff
  /\ WindowOff
  /\ PoolOff
  /\ RunnerOff
  /\ AutoOff

UploadUnchanged == UNCHANGED <<avars, wvars, rvars, usage_window, cpc, request,
  model_name, max_retries, attempt, raised, calls, fallbacks, blocked,
  after_block, nrequests, waited, primary_raised, counters, retries,
  last_text, reparses, endpoint, tracked, gvars>>

\* upload_pdf(path) on client c finds the path in the cache and returns its
\* File.
UploadCached(c, path) ==
  /\ upl = NoUpload
  /\ ncalls < MaxUploads
  /\ Cached(shared_uploaded_files, path)
  /\ ncalls' = ncalls + 1
  /\ returns' = [returns EXCEPT
                   ![path] = @ \cup {<<c, shared_uploaded_files[path]>>}]
  /\ UNCHANGED <<shared_uploaded_files, upl, nfiles, uploaded, failed_files>>
  /\ UploadUnchanged

\* upload_pdf(path) on client c does not find the path: genai.upload_file
\* creates a File, in the state st.
UploadStart(c, path) ==
  /\ upl = NoUpload
  /\ ncalls < MaxUploads
  /\ ~Cached(shared_uploaded_files, path)
  /\ ncalls' = ncalls + 1
  /\ nfiles' = nfiles + 1
  /\ \E st \in {"PROCESSING", "ACTIVE", "FAILED"} :
       upl' = [client |-> c, path |-> path, file |-> nfiles + 1, state |-> st]
  /\ UNCHANGED <<shared_uploaded_files, uploaded, returns, failed_files>>
  /\ UploadUnchanged

\* while uploaded.state.name == "PROCESSING": genai.get_file gives the File
\* in its final state.
UploadPoll ==
  /\ upl.state = "PROCESSING"
  /\ \E st \in {"ACTIVE", "FAILED"} : upl' = [upl EXCEPT !.state = st]
  /\ UNCHANGED <<shared_uploaded_files, nfiles, ncalls, uploaded, returns,
                 failed_files>>
  /\ UploadUnchanged

\* if uploaded.state.name != "ACTIVE": raise RuntimeError.
UploadFails ==
  /\ upl.state = "FAILED"
  /\ failed_files' = failed_files \cup {upl.file}
  /\ upl' = NoUpload
  /\ UNCHANGED <<shared_uploaded_files, nfiles, ncalls, uploaded, returns>>
  /\ UploadUnchanged

\* self._shared_uploaded_files[pdf_path] = uploaded; return uploaded.
UploadCompletes ==
  /\ upl.state = "ACTIVE"
  /\ shared_uploaded_files' =
       [shared_uploaded_files EXCEPT ![upl.path] = upl.file]
  /\ uploaded' = [uploaded EXCEPT ![upl.path] = @ + 1]
  /\ returns' = [returns EXCEPT ![upl.path] = @ \cup {<<upl.client, upl.file>>}]
  /\ upl' = NoUpload
  /\ UNCHANGED <<nfiles, ncalls, failed_files>>
  /\ UploadUnchanged

\* cleanup() on a client: every cached File is deleted and the cache, which
\* all the instances share, is cleared.
Cleanup ==
  /\ upl = NoUpload
  /\ \E path \in PdfPaths : Cached(shared_uploaded_files, path)
  /\ shared_uploaded_files' = [p \in PdfPaths |-> NoFile]
  /\ uploaded' = [p \in PdfPaths |-> 0]
  /\ returns' = [p \in PdfPaths |-> {}]
  /\ UNCHANGED <<upl, nfiles, ncalls, failed_files>>
  /\ UploadUnchanged

UploadNext ==
  \/ \E c \in Clients, path \in PdfPaths : UploadCached(c, path)
  \/ \E c \in Clients, path \in PdfPaths : UploadStart(c, path)
  \/ UploadPoll
  \/ UploadFails
  \/ UploadCompletes
  \/ Cleanup

SpecUpload == UploadInit /\ [][UploadNext]_vars

\* ------------------------------------- usage windows of several instances
\* The token counts of the responses recorded, as explored.
SampleTokens == {450000, 600000}

\* Seconds that pass between two operations, as explored.
Pauses == {20, 40}

\* self._global_usage_window on instance i: the instance attribute if the
\* instance has one, else the class attribute.
Resolve(i) == IF has_window[i] THEN inst_window[i] ELSE class_window

\* The while loop of _rate_limit from the evicted window w, having slept
\* for slept seconds: the window it ends with and the seconds slept in all.
RECURSIVE Throttled(_, _, _)
Throttled(w, incoming, slept) ==
  IF OverCeiling(w, incoming)
  THEN Throttled(Evict(Advance(w, wait_time(w))), incoming,
                 slept + wait_time(w))
  ELSE [window |-> w, slept |-> slept]

\* The process has constructed its clients; none has made a call.
WindowInit ==
  /\ WindowOff
  /\ CallOff
  /\ UploadOff
  /\ PoolOff
  /\ RunnerOff
  /\ AutoOff

WindowUnchanged == UNCHANGED <<avars, wvars, rvars, usage_window, cpc, request,
  model_name, max_retries, attempt, raised, calls, fallbacks, blocked,
  after_block, nrequests, waited, primary_raised, counters, retries,
  last_text, reparses, endpoint, tracked, uvars>>

\* _rate_limit(450000) on instance i: the list the name resolves to is
\* filtered into a new list, bound to the instance; its samples are summed;
\* while over the ceiling the thread sleeps, and every sample of the process
\* ages meanwhile.
RateLimit(i) ==
  /\ nops < MaxWindowOps
  /\ nops' = nops + 1
  /\ LET w == Evict(Resolve(i))
         t == Throttled(w, 450000, 0)
     IN /\ checked' = [checked EXCEPT ![i] = {u.owner : u \in Range(w)}]
        /\ has_window' = [has_window EXCEPT ![i] = TRUE]
        /\ inst_window' =
             [j \in Clients |->
                IF j = i THEN t.window ELSE Advance(inst_window[j], t.slept)]
        /\ class_window' = Advance(class_window, t.slept)
  /\ WindowUnchanged

\* _track_usage on instance i, for a response of n tokens:
\* self._global_usage_window.append(...) on the list the name resolves to.
TrackUsage(i, n) ==
  /\ nops < MaxWindowOps
  /\ nops' = nops + 1
  /\ LET sample == [age |-> 0, tokens |-> n, owner |-> i]
     IN IF has_window[i]
        THEN /\ inst_window' = [inst_window EXCEPT ![i] = Append(@, sample)]
             /\ UNCHANGED class_window
        ELSE /\ class_window' = Append(class_window, sample)
             /\ UNCHANGED inst_window
  /\ UNCHANGED <<has_window, checked>>
  /\ WindowUnchanged

\* d seconds pass between two operations.
Pause(d) ==
  /\ class_window' = Advance(class_window, d)
  /\ inst_window' = [j \in Clients |-> Advance(inst_window[j], d)]
  /\ <<class_window', inst_window'>> # <<class_window, inst_window>>
  /\ UNCHANGED <<has_window, checked, nops>>
  /\ WindowUnchanged

WindowNext ==
  \/ \E i \in Clients : RateLimit(i)
  \/ \E i \in Clients, n \in SampleTokens : TrackUsage(i, n)
  \/ \E d \in Pauses : Pause(d)

SpecWindow == WindowInit /\ [][WindowNext]_vars

\* ------------------------------------------------- auto_wave_runner.main
\* generate_work_items(get_completion_matrix()).get("wave<n>", []) on the
\* completion matrix m.
WaveItems(m, n) == generate_work_items(m)[n]

\* The wave numbers with items, in the order 1, 2, 3, 4.
RECURSIVE WavesWithItems(_, _)
WavesWithItems(m, n) ==
  IF n > 4 THEN << >>
  ELSE IF WaveItems(m, n) # << >> THEN <<n>> \o WavesWithItems(m, n + 1)
  ELSE WavesWithItems(m, n + 1)

\* The output files a wave process may leave: those on disk and the
\* artifacts of any of the items of its wave.
WaveOutputs(files, n) ==
  {files \cup done :
     done \in SUBSET {ItemKey(x) :
                       x \in Range(WaveItems(get_completion_matrix(files), n))}}

\* The runner is started: some artifacts are on disk, at most MaxItems of
\* them missing; no orchestrator or phase runner is modelled besides.
AutoInit ==
  /\ \E todo \in SubsetsUpTo(FocusKeys, MaxItems) : artifacts = ItemKeys \ todo
  /\ max_workers = 1
  /\ wave_arg = 0
  /\ pc = "off"
  /\ matrix = EmptyDict
  /\ waves = [w \in 1..4 |-> << >>]
  /\ wave_order = << >>
  /\ wave_idx = 0
  /\ results = << >>
  /\ all_results = << >>
  /\ nfutures = << >>
  /\ pending = << >>
  /\ active_keys = {}
  /\ futures = << >>
  /\ ndispatch = [k \in AllArtifacts |-> 0]
  /\ artifacts_at_start = artifacts
  /\ apc = "start"
  /\ amatrix = EmptyDict
  /\ waves_to_run = << >>
  /\ widx = 0
  /\ attempts = 0
  /\ launches = << >>
  /\ RunnerOff
  /\ ClientOff

AutoUnchanged ==
  UNCHANGED <<max_workers, wave_arg, pc, matrix, waves, wave_order, wave_idx,
              results, all_results, nfutures, pending, active_keys, futures,
              ndispatch, artifacts_at_start, rvars, cvars>>

\* main up to the wave-1 loop: the waves with items are listed; with none
\* the runner returns; with wave 1 first it monitors, else it runs them.
AutoStart ==
  /\ apc = "start"
  /\ amatrix' = get_completion_matrix(artifacts)
  /\ waves_to_run' = WavesWithItems(amatrix', 1)
  /\ apc' = IF waves_to_run' = << >> THEN "done"
            ELSE IF waves_to_run'[1] = 1 THEN "sleep"
            ELSE "loop"
  /\ widx' = 1
  /\ UNCHANGED <<artifacts, attempts, launches>>
  /\ AutoUnchanged

\* A unit of the wave 1 that runs in the background leaves its artifact.
BackgroundUnit ==
  /\ apc \in {"sleep", "check"}
  /\ \E x \in Range(WaveItems(get_completion_matrix(artifacts), 1)) :
       artifacts' = artifacts \cup {ItemKey(x)}
  /\ UNCHANGED avars
  /\ AutoUnchanged

\* time.sleep(POLL_INTERVAL); matrix = get_completion_matrix()
PollSleep ==
  /\ apc = "sleep"
  /\ amatrix' = get_completion_matrix(artifacts)
  /\ apc' = "check"
  /\ UNCHANGED <<artifacts, waves_to_run, widx, attempts, launches>>
  /\ AutoUnchanged

\* if wave_is_empty(matrix, "wave1"): pop and break; else report and loop.
PollCheck ==
  /\ apc = "check"
  /\ IF WaveItems(amatrix, 1) = << >>
     THEN /\ waves_to_run' = Tail(waves_to_run)
          /\ apc' = "loop"
     ELSE /\ apc' = "sleep"
          /\ UNCHANGED waves_to_run
  /\ UNCHANGED <<artifacts, amatrix, widx, attempts, launches>>
  /\ AutoUnchanged

\* The for loop is over: the final report.
AutoFinish ==
  /\ apc = "loop"
  /\ widx > Len(waves_to_run)
  /\ apc' = "done"
  /\ amatrix' = get_completion_matrix(artifacts)
  /\ UNCHANGED <<artifacts, waves_to_run, widx, attempts, launches>>
  /\ AutoUnchanged

\* One entry of the for loop: a wave with no items left is skipped, else
\* run_wave(wave_num) starts its process.
AutoLoop ==
  /\ apc = "loop"
  /\ widx <= Len(waves_to_run)
  /\ amatrix' = get_completion_matrix(artifacts)
  /\ IF WaveItems(amatrix', waves_to_run[widx]) = << >>
     THEN /\ widx' = widx + 1
          /\ UNCHANGED <<apc, attempts, launches>>
     ELSE /\ apc' = "running"
          /\ attempts' = 1
          /\ launches' = Append(launches, waves_to_run[widx])
          /\ UNCHANGED widx
  /\ UNCHANGED <<artifacts, waves_to_run>>
  /\ AutoUnchanged

\* The wave process ends, with the exit status rc, leaving artifacts of some
\* of its items; after a first run with a non-zero status and items left
\* run_wave is called once more, else the loop goes on.
WaveProcessEnds ==
  /\ apc = "running"
  /\ \E files \in WaveOutputs(artifacts, waves_to_run[widx]), rc \in {0, 1} :
       /\ artifacts' = files
       /\ amatrix' = get_completion_matrix(files)
       /\ IF attempts = 1 /\ rc # 0
             /\ WaveItems(amatrix', waves_to_run[widx]) # << >>
          THEN /\ attempts' = 2
               /\ launches' = Append(launches, waves_to_run[widx])
               /\ UNCHANGED <<apc, widx>>
          ELSE /\ apc' = "loop"
               /\ widx' = widx + 1
               /\ UNCHANGED <<attempts, launches>>
  /\ UNCHANGED waves_to_run
  /\ AutoUnchanged

AutoNext ==
  \/ AutoStart
  \/ BackgroundUnit
  \/ PollSleep
  \/ PollCheck
  \/ AutoLoop
  \/ WaveProcessEnds
  \/ AutoFinish

SpecAutoWave == AutoInit /\ [][AutoNext]_vars

\* The runner's own steps go on, and every wave process it launches ends;
\* nothing is assumed of the units of the background wave 1.
SpecAutoWaveFair ==
  /\ AutoInit
  /\ [][AutoNext]_vars
  /\ WF_vars(AutoStart \/ PollSleep \/ PollCheck \/ AutoLoop \/ AutoFinish)
  /\ WF_vars(WaveProcessEnds)

\* ------------------------------------------- failed items: claims
\* The item with key k is in a wave of ws.
Emitted(ws, k) ==
  \E w \in 1..4 : \E j \in 1..Len(ws[w]) : ItemKey(ws[w][j]) = k

\* C16 (as claimed): every item whose unit ended in timeout, crash or
\* non-zero exit was submitted once in its wave, and the next scheduling pass
\* emits it again, whatever the unit had written.
C16_FailedReemitted ==
  pc = "next_pass" =>
    \A i \in 1..Len(all_results) :
      all_results[i].status # "success" =>
        /\ ndispatch[ItemKey(all_results[i].item)] = 1
        /\ Emitted(waves, ItemKey(all_results[i].item))

\* The position in rs of the result of the item with key k.
ResultIndex(rs, k) == CHOOSE i \in 1..Len(rs) : ItemKey(rs[i].item) = k

\* C17: when the run ends, every wave of the run with a non-empty item list
\* has been executed, whatever failed, timed out or crashed in the waves
\* before it: each of its items has a result, after the results of every
\* earlier wave.
C17_LaterWavesRun ==
  pc = "done" =>
    \A b \in 1..Len(wave_order) :
      \A y \in Range(waves[wave_order[b]]) :
        /\ HasResult(all_results, ItemKey(y))
        /\ \A a \in 1..(b - 1) :
             \A x \in Range(waves[wave_order[a]]) :
               ResultIndex(all_results, ItemKey(x))
                 < ResultIndex(all_results, ItemKey(y))

\* The run has ended: the one item of a wave failed, timed out or crashed,
\* and the item of a later wave was executed after it.
C17_Witness ==
  /\ pc = "done"
  /\ Len(all_results) = 2
  /\ all_results[1].status \in {"failed", "timeout", "error"}
  /\ \E a, b \in 1..Len(wave_order) :
       /\ a < b
       /\ all_results[1].item \in Range(waves[wave_order[a]])
       /\ all_results[2].item \in Range(waves[wave_order[b]])

\* The exit status of the orchestrator process whose main ended with the
\* results rs: main counts the failures, prints them and returns, and the
\* module calls main() with no sys.exit.
exit_status(rs) == 0

\* C18 (as claimed): the exit status of the orchestrator is non-zero exactly
\* when an item of the executed waves ended with a status other than success.
C18_ExitReflectsFailures ==
  pc = "done" =>
    (exit_status(all_results) # 0
       <=> \E i \in 1..Len(all_results) : all_results[i].status # "success")

\* ---------------------------------------- cross-subject phase: claims
\* Phase 3 is recorded complete for the subject s: in its completed_phases
\* or in the list of one of its chapters.
Phase3Recorded(file, s) ==
  /\ s \in DOMAIN file.subjects
  /\ \/ 30 \in file.subjects[s].completed_phases
     \/ \E ch \in DOMAIN file.subjects[s].chapters :
          30 \in file.subjects[s].chapters[ch]

\* The prerequisite validation has just answered for phase 9.
Validated9 ==
  /\ from_phase = 90
  /\ rpc = "refused" \/ (rpc = "block" /\ step = 1)

C19_GracefulThenImmediate ==
  [][/\ INTERRUPT_REQUESTED => ~(rpc = "block" /\ rpc' = "running")
     /\ (INTERRUPT_COUNT = 1 /\ INTERRUPT_COUNT' = 2) => rpc' = "interrupted"]_vars

\* The status the ledger should carry after a phase attempt that ended with
\* the runner at position p.
AttemptStatus(p) ==
  CASE p = "block" -> "completed"
    [] p = "crashed" -> "failed"
    [] p = "interrupted" -> "interrupted"

\* C20 (as claimed): when a phase attempt ends, in success, in failure (the
\* phase raised) or in interruption, the ledger's last checkpoint is one for
\* that phase with the matching status.
C20_CheckpointAfterEveryAttempt ==
  [][(rpc = "running" /\ rpc' # "running") =>
       /\ ckpt'.last_run.phase = PHASE_ORDER[step]
       /\ ckpt'.last_run.status = AttemptStatus(rpc')]_vars

\* ------------------------------------------- missing ledger: claims
\* A checkpoint file holding the empty document {"subjects": {}}.
EmptyDocument ==
  [exists |-> TRUE, readable |-> TRUE, last_run |-> NoCheckpoint,
   subjects |-> EmptyDict]

\* C15 (as claimed): with a missing or unparseable checkpoint file,
\* get_last_checkpoint returns None, save_checkpoint writes what it writes
\* over an empty document, and check_prerequisites is satisfied exactly for
\* the phases with no declared prerequisites and otherwise reports the
\* declared prerequisites as missing.
C15_MissingLedgerIsEmpty ==
  (~ckpt.exists \/ ~ckpt.readable) =>
    /\ get_last_checkpoint(ckpt) = NoCheckpoint
    /\ \A p \in Pdfs, c \in 0..NUM_CHAPTERS, ph \in DOMAIN PHASE_DEPENDENCIES :
         /\ save_checkpoint(ckpt, p, c, ph, "completed")
              = save_checkpoint(EmptyDocument, p, c, ph, "completed")
         /\ LET r == check_prerequisites(ckpt, p, c, ph)
            IN /\ r.ok <=> PHASE_DEPENDENCIES[ph] = {}
               /\ ~r.read_error
               /\ r.missing = PHASE_DEPENDENCIES[ph]

\* ------------------------------------------------------- client: claims
\* C3 (as claimed): the token counts recorded in the usage window for the
\* last 60 seconds never sum to more than the TPM ceiling.
C3_WindowUnderCeiling == current_tpm(Evict(usage_window)) <= TPM_LIMIT

\* C5 (as claimed): once a primary call of a request has failed with an error
\* carrying 'copyrighted', 'reciting' or 'RECITATION', no further primary
\* call is issued for that request, and the request ends having entered the
\* fallback model exactly once, with the fallback's full budget.
C5_FallbackLaw ==
  /\ after_block = 0
  /\ (blocked /\ cpc \in {"returned", "failed"}) => fallbacks = 1
  /\ model_name = "fallback" => max_retries = FALLBACK_RETRIES

GenericFailures == {ErrTimeout, ErrServer, ErrJson, ErrJsonAt429, ErrOther}

\* C12 (as claimed): when the primary model exhausts its retry budget with a
\* failure that is neither a content-policy block nor a quota error, the
\* request fails with that error and the fallback model is never called.
C12_GenericExhaustionFails ==
  primary_raised \in GenericFailures =>
    /\ cpc \in {"failed", "idle"}
    /\ raised = primary_raised
    /\ fallbacks = 0
    /\ calls.fallback = 0

AllPendingBusy == \A i \in 1..Len(pending) : pending[i].key \in active_keys

\* C25: the dispatch loop stops submitting, and sleeps for a completion, only
\* when the key of every pending call-item is busy; and, every unit ending,
\* every wave that was entered resolves, with the pending queue and the
\* in-flight set both empty.
C25_DispatchProgress ==
  /\ [][(pc = "dispatch" /\ pc' = "collect") => AllPendingBusy]_vars
  /\ [][(pc = "collect" /\ pc' = "dispatch" /\ futures' = futures)
          => AllPendingBusy /\ futures # << >>]_vars
  /\ (pc \in {"nonapi", "dispatch", "collect"})
       ~> (pc = "summary" /\ pending = << >> /\ futures = << >>)

\* The dispatcher is about to sleep: a call-item is pending behind a running
\* unit that holds its key, while the other key, free, has nothing pending.
C25_Witness ==
  /\ pc = "collect"
  /\ max_workers = 2
  /\ pending # << >>
  /\ Cardinality(active_keys) = 1
  /\ \A i \in 1..Len(futures) : ~futures[i].done

\* ------------------------------------------- dispatch order: claims
\* C28 (as claimed): while a wave is executed, an item of the wave is
\* submitted only when every item of the wave with a strictly smaller
\* priority value has been submitted.
C28_DispatchByPriority ==
  pc \in {"nonapi", "dispatch", "collect", "summary"} =>
    \A x, y \in Range(CurrentItems) :
      (x.priority < y.priority /\ ndispatch[ItemKey(y)] > 0)
        => ndispatch[ItemKey(x)] > 0

\* ------------------------------------------- wave contents: claims
\* The items of ws for the subject s and the phase p.
ItemsFor(ws, s, p) ==
  {x \in UNION {Range(ws[w]) : w \in 1..4} : x.subject = s /\ x.phase = p}

\* C30 (as claimed): for a subject whose chapter map of a per-chapter phase
\* is empty, generate_work_items emits no item of that subject and phase.
C30_NoChaptersNoItems ==
  pc = "generated" =>
    \A s \in Subjects, p \in ChapterPhases :
      Get(matrix[s], p, EmptyDict) = EmptyDict => ItemsFor(waves, s, p) = {}


\* The wave generate_work_items appends a phase's items to (0: the phase is
\* not scheduled by the waves).
WaveOfPhase(phase) ==
  IF phase \in {20, 30, 40, 50} THEN 1
  ELSE IF phase \in {60, 61, 70} THEN 2
  ELSE IF phase \in {80, 82, 81} THEN 3
  ELSE IF phase = 90 THEN 4
  ELSE 0

\* The phases a phase depends on: PHASE_DEPENDENCIES, and for 8.2 and 8.1,
\* which it does not list, phase 8, whose output they read.
DependsOn(phase) ==
  IF phase \in DOMAIN PHASE_DEPENDENCIES THEN PHASE_DEPENDENCIES[phase]
  ELSE IF phase \in {81, 82} THEN {80}
  ELSE {}

\* C29 (as claimed): every item is in the wave of its phase, and every phase
\* its phase depends on belongs to a strictly earlier wave (or to none: it is
\* run before the waves).
C29_NoIntraWaveDependency ==
  pc = "generated" =>
    \A w \in 1..4 :
      \A x \in Range(waves[w]) :
        /\ WaveOfPhase(x.phase) = w
        /\ \A d \in DependsOn(x.phase) : WaveOfPhase(d) < w

\* ------------------------------------------- concurrent checkpoints: claims
\* The phase of the unit u is in the completed set of its subject and chapter.
RecordedIn(file, u) ==
  LET subject == SubjectOf(u.pdf)
  IN /\ file.exists /\ file.readable
     /\ subject \in DOMAIN file.subjects
     /\ IF u.chapter # 0
        THEN u.phase \in Get(file.subjects[subject].chapters, u.chapter, {})
        ELSE u.phase \in file.subjects[subject].completed_phases

\* C26 (as claimed): after two concurrent save_checkpoint calls for distinct
\* triples have both finished, both phases are in their completed sets.
C26_NoLostUpdate ==
  (\A u \in 1..Len(units) : units[u].upc = "saved") =>
    \A u \in 1..Len(units) : RecordedIn(ckpt, units[u])


\* ------------------------------------------- malformed output: claims
\* The response texts whose first json.loads raises JSONDecodeError.
MalformedTexts == {"fence_inline", "invalid", "invalid_at_429"}

\* C23 (as claimed): for every response whose payload failed to parse, on
\* every attempt of the budget, one cleanup-and-reparse attempt has been made
\* on its text once the handler is through; and when the cleaned text parses,
\* the handler has returned the result.
C23_OneReparseOnEveryAttempt ==
  (last_text \in MalformedTexts /\ cpc # "endpoint") =>
    /\ reparses = 1
    /\ (last_text = "fence_inline" /\ cpc # "idle") => cpc = "returned"


\* ------------------------------------------------ quota backoff: claims
\* The first request of the client has returned from the third call of the
\* primary model, whose first two calls raised quota errors.
QuotaTwiceThenSuccess ==
  /\ cpc = "returned"
  /\ nrequests = 1
  /\ calls.primary = 3
  /\ primary_raised = NoError
  /\ Len(retries) = 2
  /\ \A i \in 1..2 : Classify(retries[i].error) = "quota"

\* C24: when the primary model raised a quota error on attempts 1 and 2 and
\* answered on attempt 3, the client slept 30 * 2^0 and then 30 * 2^1 seconds
\* before the retries, made no call of the fallback model, and its call,
\* token and cost counters are those of the one response received.
C24_QuotaBackoffAndCounters ==
  QuotaTwiceThenSuccess =>
    /\ retries[1].delay = 30
    /\ retries[2].delay = 60
    /\ model_name = "primary"
    /\ calls.fallback = 0
    /\ fallbacks = 0
    /\ counters.call_count = 1
    /\ counters.total_input_tokens = counters.last_input_tokens
    /\ counters.total_output_tokens = counters.last_output_tokens
    /\ counters.total_cost_estimate =
         CostOf("primary", [inp |-> counters.last_input_tokens,
                            out |-> counters.last_output_tokens])

\* The scenario of C24 has happened, with a response that used tokens.
C24_Witness ==
  /\ QuotaTwiceThenSuccess
  /\ counters.total_input_tokens = 500000
  /\ counters.total_cost_estimate = 500000 * 20 + 100000 * 80


\* -------------------------------------------------- upload cache: claims
\* The File objects the calls of upload_pdf(path) have returned since the
\* last cleanup.
Handles(path) == {r[2] : r \in returns[path]}

\* C22: over the calls of upload_pdf(path) made on any client instances with
\* no cleanup in between, at most one upload of the path has succeeded and
\* every call that returned has returned the same File; a File whose upload
\* failed is not in the cache.
C22_UploadIdempotent ==
  \A path \in PdfPaths :
    /\ uploaded[path] <= 1
    /\ Cardinality(Handles(path)) <= 1
    /\ shared_uploaded_files[path] \notin failed_files

\* After a failed upload of a path, calls on both client instances have
\* returned its File, uploaded once.
C22_Witness ==
  \E path \in PdfPaths :
    /\ {r[1] : r \in returns[path]} = Clients
    /\ uploaded[path] = 1
    /\ failed_files # {}
    /\ upl = NoUpload
    /\ ncalls >= 3


\* ------------------------------------------------- usage windows: claims
\* C27 (as claimed): the throttle check of a client instance sums only the
\* samples that instance recorded, in any order of the instances' throttle
\* checks and usage records.
C27_WindowLocalToInstance ==
  \A i \in Clients : checked[i] \subseteq {i}


\* ------------------------------------------------ cost counters: claims
\* The usage the counters c hold as that of the last response.
LastUsage(c) == [inp |-> c.last_input_tokens, out |-> c.last_output_tokens]

\* C32: a step in which the endpoint returns a response adds exactly that
\* response's usage to the input-token, output-token and cost counters and
\* one to the call counter, whether the attempt then returns, retries or
\* raises; every other step, an endpoint call that raises included, leaves
\* the counters unchanged.
C32_CountersFollowResponses ==
  [][IF cpc = "endpoint" /\ last_text' # "none"
     THEN /\ counters'.call_count = counters.call_count + 1
          /\ counters'.total_input_tokens =
               counters.total_input_tokens + counters'.last_input_tokens
          /\ counters'.total_output_tokens =
               counters.total_output_tokens + counters'.last_output_tokens
          /\ counters'.total_cost_estimate =
               counters.total_cost_estimate
                 + CostOf(model_name, LastUsage(counters'))
          /\ usage_window'[Len(usage_window')].tokens =
               counters'.last_input_tokens + counters'.last_output_tokens
     ELSE counters' = counters]_vars

\* A response that used tokens was counted although its text did not parse
\* and the request failed, after a call that raised.
C32_Witness ==
  /\ cpc = "failed"
  /\ last_text = "invalid"
  /\ calls.primary = 2
  /\ counters.call_count = 1
  /\ counters.total_input_tokens = 400000
  /\ counters.total_cost_estimate = 400000 * 20 + 50000 * 80


\* --------------------------------------------------- retry bound: claims
\* C37: a request makes at most max_retries calls of the primary model and
\* at most 3 of the fallback model; when it has returned, the text of its
\* last response was parsed; and every request in progress ends, returning
\* or raising.
C37_RetryBound ==
  /\ [](/\ calls.primary <= request.max_retries
        /\ calls.fallback <= FALLBACK_RETRIES
        /\ cpc = "returned" => last_text \in {"valid", "fence_inline"}
        /\ cpc = "failed" => raised # NoError)
  /\ (cpc \in {"throttle", "endpoint"}) ~> (cpc \in {"returned", "failed"})

\* A request has failed after all the calls of its budget on the primary
\* model and all 3 calls of the fallback model.
C37_Witness ==
  /\ cpc = "failed"
  /\ request.max_retries = MaxRetries
  /\ calls.primary = MaxRetries
  /\ calls.fallback = FALLBACK_RETRIES


\* ------------------------------------------------- throttle loop: claims
\* C40: whenever the body of the while loop of _rate_limit is about to run
\* the evicted window is not empty; each wait leaves the window without at
\* least its oldest sample; so the waits of one throttle check are at most
\* the samples the window held.
C40_ThrottleLoopTerminates ==
  /\ []((cpc = "throttle"
          /\ OverCeiling(Evict(usage_window), est_tokens(request.phase)))
         => Evict(usage_window) # << >>)
  /\ [][(cpc = "throttle" /\ waited' = waited + 1) =>
          /\ Len(usage_window') < Len(Evict(usage_window))
          /\ \A i \in 1..Len(usage_window') :
               usage_window'[i].tokens =
                 Evict(usage_window)[i + Len(Evict(usage_window))
                                       - Len(usage_window')].tokens]_vars

\* A throttle check has waited twice: the sample left after the first wait
\* still kept the call over the ceiling.
C40_Witness ==
  /\ cpc = "throttle"
  /\ waited = 2
  /\ Len(usage_window) = 0


\* ------------------------------------------------ append-only: claims
\* Every subject entry, completed phase and chapter phase of the document
\* doc is in the file.
Contains(file, doc) ==
  \A s \in DOMAIN doc.subjects :
    /\ s \in DOMAIN file.subjects
    /\ doc.subjects[s].completed_phases
         \subseteq file.subjects[s].completed_phases
    /\ \A c \in DOMAIN doc.subjects[s].chapters :
         /\ c \in DOMAIN file.subjects[s].chapters
         /\ doc.subjects[s].chapters[c] \subseteq file.subjects[s].chapters[c]

\* C33 (as claimed): once the record calls are over, everything that was in
\* the ledger when any of them loaded it, and the phase each of them
\* recorded, is in the ledger: no phase and no subject entry has been
\* removed, whatever the document was when a call was made.
C33_LedgerAppendOnly ==
  (\A u \in 1..Len(units) : units[u].upc = "saved") =>
    \A u \in 1..Len(units) :
      /\ Contains(ckpt, units[u].data)
      /\ RecordedIn(ckpt, units[u])


\* ---------------------------------------------- auto-wave runner: claims
\* C34 (as claimed): whenever run_wave is called for a wave, the completion
\* matrix computed from the artifacts then on disk shows no remaining item
\* for any earlier wave.
C34_NextWaveOnlyWhenDone ==
  [][Len(launches') > Len(launches) =>
       \A m \in 1..(launches'[Len(launches')] - 1) :
         WaveItems(get_completion_matrix(artifacts'), m) = << >>]_vars

\* C39 (as claimed): the runner reaches its final report in every execution
\* in which its own steps go on and every wave process it launches ends.
C39_AutoRunnerTerminates == <>(apc = "done")


\* ------------------------------------------------------------ C35
\* The position of a phase in PHASE_ORDER.
OrderIndex(phase) ==
  CHOOSE k \in 1..Len(PHASE_ORDER) : PHASE_ORDER[k] = phase

\* C35: resume skips no unfinished phase.  When a run with --resume (and no
\* --phase) has resumed from a last checkpoint {phase P, completed} and
\* reaches the first phase block, every phase that follows P in PHASE_ORDER
\* and is not above to_phase is one whose block the run executes.
C35_ResumeSkipsNothing ==
  (/\ rpc = "block" /\ step = 1
   /\ args.resume /\ args.phase = NoPhase
   /\ get_last_checkpoint(ckpt) # NoCheckpoint
   /\ ckpt.last_run.status = "completed") =>
    \A k \in 1..Len(PHASE_ORDER) :
      (k > OrderIndex(ckpt.last_run.phase) /\ PHASE_ORDER[k] <= to_phase)
        => InRange(PHASE_ORDER[k])


\* ------------------------------------------------------------ C38
\* C38: when a forced interrupt ends the run while a phase is executing, the
\* checkpoint saved is an interrupted one that names that phase and the pdf
\* and chapter of the run.
C38_InterruptNamesThePhase ==
  [][(rpc = "running" /\ rpc' = "interrupted") =>
       /\ ckpt'.last_run.status = "interrupted"
       /\ ckpt'.last_run.phase = PHASE_ORDER[step]
       /\ ckpt'.last_run.pdf = pdf
       /\ ckpt'.last_run.chapter = chapter]_vars


\* ------------------------------------------------------------ C31
\* The call-items of the wave in hand that are queued or in flight, each with
\* the key index it is bound to.
Bound ==
  Range(pending) \cup {[item |-> f.item, key |-> f.key] : f \in Range(futures)}

\* C31: slot affinity.  Within a wave the call-items of one subject are all
\* bound to the same key index, an index of the pool; a unit is submitted
\* with the key index its item was bound to; at most max_workers units of
\* call-items run at once; and execute_wave returns only when nothing is
\* queued or in flight and every call-item of the wave has a terminal status.
C31_SlotAffinity ==
  /\ [](/\ \A a, b \in Bound : a.item.subject = b.item.subject => a.key = b.key
        /\ \A a \in Bound : a.key \in 0..(max_workers - 1)
        /\ Cardinality(RunningUnits) <= max_workers
        /\ pc = "summary" =>
             /\ pending = << >> /\ futures = << >>
             /\ \A x \in Range(ApiItemsOf(CurrentItems)) :
                  \E i \in 1..Len(results) :
                    results[i].item = x /\ results[i].status \in Statuses)
  /\ [][\A i \in 1..Len(futures') :
          (i > Len(futures) /\ Len(futures') > Len(futures)) =>
            \E p \in Range(pending) :
              p.item = futures'[i].item /\ p.key = futures'[i].key]_vars

\* C31 witness: a pool of two; one call-item of a subject is running on key
\* index 0 and the next call-item of the same subject waits for that key
\* index, although key index 1 is free.
C31_Witness ==
  /\ pc = "collect"
  /\ max_workers = 2
  /\ Len(futures) = 1 /\ ~futures[1].done /\ futures[1].key = 0
  /\ Len(pending) = 1 /\ pending[1].key = 0
  /\ pending[1].item.subject = futures[1].item.subject
  /\ active_keys = {0}


\* ------------------------------------------------------------ C36
\* The position of an item in a sequence of items that holds it once.
PositionIn(items, x) == CHOOSE i \in 1..Len(items) : items[i] = x

\* The item x has a terminal status in the results rs.
Resolved(rs, x) ==
  \E i \in 1..Len(rs) : rs[i].item = x /\ rs[i].status \in Statuses

\* C36: per-slot FIFO.  No two units in flight carry the same key index;
\* the call-item submitted is the first one pending for its key index; and
\* when it is submitted, every call-item of the same subject that the wave's
\* sort puts before it has a terminal status in the results.
C36_PerSlotFifo ==
  /\ [](\A i, j \in InFlight : i # j => futures[i].key # futures[j].key)
  /\ [][Len(futures') > Len(futures) =>
          LET f == futures'[Len(futures')]
              at == CHOOSE i \in 1..Len(pending) : pending[i].item = f.item
          IN /\ pending[at].key = f.key
             /\ \A i \in 1..Len(pending) : pending[i].key = f.key => at <= i
             /\ \A y \in Range(ApiItemsOf(CurrentItems)) :
                  (/\ y.subject = f.item.subject
                   /\ PositionIn(CurrentItems, y)
                        < PositionIn(CurrentItems, f.item))
                    => Resolved(results, y)]_vars

\* C36 witness: the second call-item of a subject is running after the
\* first one, sorted before it, ended in a failure and was collected, in a
\* pool of two where the other key index stayed free.
C36_Witness ==
  /\ pc \in {"dispatch", "collect"}
  /\ max_workers = 2
  /\ Len(futures) = 1 /\ ~futures[1].done
  /\ pending = << >>
  /\ \E i \in 1..Len(results) :
       /\ results[i].status = "failed"
       /\ results[i].item.subject = futures[1].item.subject
       /\ results[i].item.api_needed
       /\ PositionIn(CurrentItems, results[i].item)
            < PositionIn(CurrentItems, futures[1].item)

====
